---- MODULE Spec2Model ----
(***************************************************************************)
(* SQL review rule engine of bytebase.                                     *)
(*                                                                         *)
(*  - the MSSQL table naming convention advisor                            *)
(*    (backend/plugin/advisor/mssql, src/unnamed/part_000):                *)
(*    NamingTableAdvisor.Check and its tree-walk listener, invoked once,   *)
(*    again on the same inputs, and concurrently; its registration;        *)
(*  - the rule configuration schema conversion                             *)
(*    (src/frontend/src/types/sqlReview.ts):                               *)
(*    convertPolicyRuleToRuleTemplate / convertRuleTemplateToPolicyRule,   *)
(*    the catalog TEMPLATE_LIST_V2 and convertToCategoryList;              *)
(*  - the plan of a new issue (src/unnamed/part_001): buildPlan on its     *)
(*    standard path, buildSpecForTarget and maybeSetInitialSQLForSpec.     *)
(*                                                                         *)
(* Strings the code inspects character by character (table names, string   *)
(* literal tokens) are sequences of one-character strings; message texts    *)
(* are sequences of string pieces, so that fmt.Sprintf is concatenation.    *)
(***************************************************************************)
EXTENDS Integers, Sequences, FiniteSets, TLC

VARIABLES
    \* ---- one invocation of NamingTableAdvisor.Check ----
    ctx,         \* advisor.Context: the AST handle and the rule
    pc,          \* position of the invocation: start, walk, done
    pos,         \* index of the next node the tree walker enters
    listener,    \* the namingTableListener of this invocation
    result,      \* what Check returned: [list, err]
    \* ---- one conversion between stored rule and rule template ----
    cpc,         \* position of the conversion scenario
    policyRule,  \* the SchemaPolicyRule handed in
    ruleTemplate,\* the RuleTemplateV2 handed in
    tmplResult,  \* outcome of convertPolicyRuleToRuleTemplate
    ruleResult,  \* outcome of convertRuleTemplateToPolicyRule
    \* ---- Check called again on the same inputs ----
    runs,        \* number of the current invocation
    previous,    \* what the invocation before the current one returned
    \* ---- invocations of Check running at the same time ----
    calls,       \* per invocation: its ctx, pc, pos, listener and result
    \* ---- the advisor registry ----
    registry,    \* (dialect, rule type) -> advisor registered, or none
    registered,  \* the calls of Register so far, in order
    regErr,      \* whether the last call of Register failed
    \* ---- the rule template catalog ----
    kpc,             \* position of the catalog scenario
    templateList,    \* the presets read at start-up: sample, dev, prod
    TEMPLATE_LIST_V2,\* the catalog built from schema and presets
    passed,          \* the rule last passed to a conversion, after the call
    returned,        \* what the last call on the catalog returned
    \* ---- the plan of a new issue ----
    ppc,         \* position of the plan scenario
    params,      \* CreateIssueParams: databases, template, initial SQL
    uid,         \* the counter behind nextUID
    sheets,      \* the sheet store: sheet name -> statement
    plan,        \* the specs of the plan built so far
    todo         \* the databases buildSteps has still to visit

advisorVars == <<ctx, pc, pos, listener, result>>
convVars == <<cpc, policyRule, ruleTemplate, tmplResult, ruleResult>>
againVars == <<runs, previous>>
parVars == <<calls>>
regVars == <<registry, registered, regErr>>
catVars == <<kpc, templateList, TEMPLATE_LIST_V2, passed, returned>>
planVars == <<ppc, params, uid, sheets, plan, todo>>
vars == <<ctx, pc, pos, listener, result,
          cpc, policyRule, ruleTemplate, tmplResult, ruleResult,
          runs, previous, calls, registry, registered, regErr,
          kpc, templateList, TEMPLATE_LIST_V2, passed, returned,
          ppc, params, uid, sheets, plan, todo>>

(***************************************************************************)
(* Bounds of the model.                                                    *)
(***************************************************************************)
\* Largest number of listener-relevant nodes in a parsed tree.
MaxNodes == 2
\* Largest number of components in the componentList of an input template.
MaxComponents == 2

(***************************************************************************)
(* Characters and strings.                                                 *)
(***************************************************************************)
Lower == {"a", "b", "c", "d", "e", "f", "g", "h", "i", "j", "k", "l", "m",
          "n", "o", "p", "q", "r", "s", "t", "u", "v", "w", "x", "y", "z"}

\* strings.HasPrefix(s, "'") and strings.HasSuffix(s, "'")
HasPrefixQuote(s) == Len(s) >= 1 /\ s[1] = "'"
HasSuffixQuote(s) == Len(s) >= 1 /\ s[Len(s)] = "'"

(***************************************************************************)
(* Go's regexp, for the patterns the rule payloads of the model carry.     *)
(* A compiled pattern is a syntax tree; Ends(re, s, i) is the set of       *)
(* positions j such that re matches s[i .. j-1].                           *)
(***************************************************************************)
ReSet(cs)    == [t |-> "set", cs |-> cs]
ReCat(l, r)  == [t |-> "cat", l |-> l, r |-> r]
RePlus(r)    == [t |-> "plus", r |-> r]
ReStar(r)    == [t |-> "star", r |-> r]
ReBol        == [t |-> "bol"]
ReEol        == [t |-> "eol"]

RECURSIVE Ends(_, _, _)
RECURSIVE EndsClosure(_, _, _)

EndsClosure(re, s, X) ==
    LET Y == X \cup UNION {Ends(re, s, k) : k \in X}
    IN  IF Y = X THEN X ELSE EndsClosure(re, s, Y)

Ends(re, s, i) ==
    CASE re.t = "set"  -> IF i <= Len(s) /\ s[i] \in re.cs THEN {i + 1} ELSE {}
      [] re.t = "cat"  -> UNION {Ends(re.r, s, k) : k \in Ends(re.l, s, i)}
      [] re.t = "plus" -> EndsClosure(re.r, s, Ends(re.r, s, i))
      [] re.t = "star" -> EndsClosure(re.r, s, {i})
      [] re.t = "bol"  -> IF i = 1 THEN {i} ELSE {}
      [] re.t = "eol"  -> IF i = Len(s) + 1 THEN {i} ELSE {}

\* The format strings of the model.
SnakeFormat   == "^[a-z]+(_[a-z]+)*$"
LowerFormat   == "[a-z]+"
InvalidFormat == "("

\* regexp.Compile: the syntax tree of a format string, or an error.
RegexpCompile(format) ==
    CASE format = SnakeFormat ->
           [err |-> FALSE,
            re  |-> ReCat(ReBol,
                     ReCat(RePlus(ReSet(Lower)),
                      ReCat(ReStar(ReCat(ReSet({"_"}), RePlus(ReSet(Lower)))),
                            ReEol)))]
      [] format = LowerFormat ->
           [err |-> FALSE, re |-> RePlus(ReSet(Lower))]
      [] OTHER -> [err |-> TRUE, re |-> ReBol]

\* (*regexp.Regexp).MatchString: the pattern matches somewhere in s.
MatchString(format, s) ==
    \E i \in 1..(Len(s) + 1) : Ends(RegexpCompile(format).re, s, i) # {}

(***************************************************************************)
(* advisor.Advice and the message texts.                                   *)
(***************************************************************************)
Success == "SUCCESS"
Warn    == "WARN"
Error   == "ERROR"

Ok                            == "Ok"
NamingTableConventionMismatch == "NamingTableConventionMismatch"

FormatText == " mismatches table naming convention, naming format should be "
LengthText == " mismatches table naming convention, its length should be within "
CharactersText == " characters"

\* fmt.Sprintf(`%s mismatches table naming convention, naming format should be %q`, name, format)
FormatContent(name, format) == name \o <<FormatText, "\"", format, "\"">>

\* fmt.Sprintf(`%s mismatches table naming convention, its length should be within %d characters`, name, maxLength)
LengthContent(name, maxLength) ==
    name \o <<LengthText, ToString(maxLength), CharactersText>>

Advice(status, code, title, content, line) ==
    [Status |-> status, Code |-> code, Title |-> title,
     Content |-> content, Line |-> line]

(***************************************************************************)
(* The parsed tree, as the walker presents it to the listener: the nodes   *)
(* in walk order.  Every node carries all fields; kind says which apply.   *)
(*   create_table: name is Table_name().GetTable().GetText()               *)
(*   execute_body: the chain of sub-nodes of the procedure name, the       *)
(*     procedure identifier, the first argument and the arguments nested   *)
(*     in it (AllExecute_statement_arg)                                    *)
(*   other: any production the listener does not override                  *)
(***************************************************************************)
\* An execute_statement_arg: how far the chain unnamed -> parameter ->
\* constant -> STRING goes, the token text, and the number of further
\* arguments nested in it.
Arg(shape, text, nested) == [shape |-> shape, text |-> text, nested |-> nested]
NilArg == Arg("nil", <<>>, 0)
StringArg(text) == Arg("string", text, 0)

CreateTableNode(name, line) ==
    [kind |-> "create_table", line |-> line, name |-> name,
     hasServerDbSchema |-> FALSE, hasDbSchema |-> FALSE,
     hasProcSchema |-> FALSE, hasSchema |-> FALSE, procedure |-> "",
     first |-> NilArg, rest |-> <<>>]

ExecuteBodyNode(line, chain, hasSchema, procedure, first, rest) ==
    [kind |-> "execute_body", line |-> line, name |-> <<>>,
     hasServerDbSchema |-> chain >= 1, hasDbSchema |-> chain >= 2,
     hasProcSchema |-> chain >= 3, hasSchema |-> hasSchema,
     procedure |-> procedure, first |-> first, rest |-> rest]

OtherNode(line) ==
    [kind |-> "other", line |-> line, name |-> <<>>,
     hasServerDbSchema |-> FALSE, hasDbSchema |-> FALSE,
     hasProcSchema |-> FALSE, hasSchema |-> FALSE, procedure |-> "",
     first |-> NilArg, rest |-> <<>>]

\* EXEC <procedure> 'old', 'new': an unqualified call with two string literals.
RenameNode(line, procedure, old, new) ==
    ExecuteBodyNode(line, 3, FALSE, procedure,
                    Arg("string", old, 1), <<StringArg(new)>>)

\* bbparser.NormalizedTSqlTableNamePart: the identifier without its
\* brackets, in lower case; an error for an identifier it cannot resolve.
NormalizedTSqlTableNamePart(v) ==
    CASE v = "sp_rename"   -> [err |-> FALSE, name |-> "sp_rename"]
      [] v = "[SP_RENAME]" -> [err |-> FALSE, name |-> "sp_rename"]
      [] v = "sp_help"     -> [err |-> FALSE, name |-> "sp_help"]
      [] OTHER             -> [err |-> TRUE, name |-> ""]

(***************************************************************************)
(* Check setup.                                                            *)
(***************************************************************************)
\* advisor.NewStatusBySQLReviewRuleLevel
NewStatusBySQLReviewRuleLevel(level) ==
    CASE level = "ERROR"   -> [err |-> FALSE, status |-> Error]
      [] level = "WARNING" -> [err |-> FALSE, status |-> Warn]
      [] OTHER             -> [err |-> TRUE, status |-> ""]

\* advisor.UnmarshalNamingRulePayloadAsRegexp: the payload is JSON
\* {format, maxLength}; the format must compile.
UnmarshalNamingRulePayloadAsRegexp(payload) ==
    IF ~payload.wellFormed \/ RegexpCompile(payload.format).err
    THEN [err |-> TRUE, format |-> "", maxLength |-> 0]
    ELSE [err |-> FALSE, format |-> payload.format,
          maxLength |-> payload.maxLength]

NoListener ==
    [level |-> "", title |-> "", format |-> "", maxLength |-> 0,
     adviceList |-> <<>>]

\* The listener starting from the adviceList of the listener before it.
NewListenerKeepsAdvice(level, title, format, maxLength) ==
    [level |-> level, title |-> title, format |-> format,
     maxLength |-> maxLength, adviceList |-> listener.adviceList]

\* The listener Check constructs (part_000:48-53): an empty adviceList.
NewListener(level, title, format, maxLength) ==
    [level |-> level, title |-> title, format |-> format,
     maxLength |-> maxLength, adviceList |-> <<>>]

(***************************************************************************)
(* The listener.                                                           *)
(***************************************************************************)
\* The checks with the format condition not negated.
NamingAdviceMatchInverted(l, name, line) ==
    (IF MatchString(l.format, name)
     THEN <<Advice(l.level, NamingTableConventionMismatch, l.title,
                   FormatContent(name, l.format), line)>>
     ELSE <<>>)
    \o
    (IF l.maxLength > 0 /\ Len(name) > l.maxLength
     THEN <<Advice(l.level, NamingTableConventionMismatch, l.title,
                   LengthContent(name, l.maxLength), line)>>
     ELSE <<>>)

\* The checks with the length compared by >= instead of >.
NamingAdviceOffByOne(l, name, line) ==
    (IF ~MatchString(l.format, name)
     THEN <<Advice(l.level, NamingTableConventionMismatch, l.title,
                   FormatContent(name, l.format), line)>>
     ELSE <<>>)
    \o
    (IF l.maxLength > 0 /\ Len(name) >= l.maxLength
     THEN <<Advice(l.level, NamingTableConventionMismatch, l.title,
                   LengthContent(name, l.maxLength), line)>>
     ELSE <<>>)

\* The checks with the length check in an else branch of the format check.
NamingAdviceElseIf(l, name, line) ==
    IF ~MatchString(l.format, name)
    THEN <<Advice(l.level, NamingTableConventionMismatch, l.title,
                  FormatContent(name, l.format), line)>>
    ELSE IF l.maxLength > 0 /\ Len(name) > l.maxLength
    THEN <<Advice(l.level, NamingTableConventionMismatch, l.title,
                  LengthContent(name, l.maxLength), line)>>
    ELSE <<>>

\* The checks with the length check ahead of the format check.
NamingAdviceLengthFirst(l, name, line) ==
    (IF l.maxLength > 0 /\ Len(name) > l.maxLength
     THEN <<Advice(l.level, NamingTableConventionMismatch, l.title,
                   LengthContent(name, l.maxLength), line)>>
     ELSE <<>>)
    \o
    (IF ~MatchString(l.format, name)
     THEN <<Advice(l.level, NamingTableConventionMismatch, l.title,
                   FormatContent(name, l.format), line)>>
     ELSE <<>>)

\* The two checks both handlers run on a name (part_000:90-107, 177-194).
NamingAdvice(l, name, line) ==
    (IF ~MatchString(l.format, name)
     THEN <<Advice(l.level, NamingTableConventionMismatch, l.title,
                   FormatContent(name, l.format), line)>>
     ELSE <<>>)
    \o
    (IF l.maxLength > 0 /\ Len(name) > l.maxLength
     THEN <<Advice(l.level, NamingTableConventionMismatch, l.title,
                   LengthContent(name, l.maxLength), line)>>
     ELSE <<>>)

\* namingTableListener.EnterCreate_table: the listener after the call.
EnterCreate_table(l, c) ==
    [l EXCEPT !.adviceList = @ \o NamingAdvice(l, c.name, c.line)]

\* The chain Execute_statement_arg_unnamed() -> Execute_parameter() ->
\* Constant() -> STRING() of an argument is complete (part_000:136-150,
\* 156-170): each link that is nil makes the handler return.
IsStringLiteral(arg) ==
    IF arg.shape = "nil" THEN FALSE               \* the argument is nil
    ELSE IF arg.shape = "named" THEN FALSE        \* no unnamed argument
    ELSE IF arg.shape = "noParameter" THEN FALSE  \* no execute_parameter
    ELSE IF arg.shape = "noConstant" THEN FALSE   \* a variable, DEFAULT, ...
    ELSE IF arg.shape = "notString" THEN FALSE    \* a number, ...
    ELSE TRUE

\* strings.Trim(text, "'"): the token text without any leading or trailing
\* quote.
RECURSIVE UnwrapStringTrim(_)
UnwrapStringTrim(text) ==
    IF HasPrefixQuote(text) THEN UnwrapStringTrim(Tail(text))
    ELSE IF HasSuffixQuote(text)
    THEN UnwrapStringTrim(SubSeq(text, 1, Len(text) - 1))
    ELSE text

\* The new table name: the token text without one pair of quotes.
UnwrapString(text) ==
    IF HasPrefixQuote(text) /\ HasSuffixQuote(text)
    THEN SubSeq(text, 2, Len(text) - 1)
    ELSE text

\* EnterExecute_body checking the literal with its quotes.
EnterExecute_bodyNoUnwrap(l, c) ==
    IF ~c.hasServerDbSchema \/ ~c.hasDbSchema \/ ~c.hasProcSchema
       \/ c.hasSchema
    THEN l
    ELSE IF NormalizedTSqlTableNamePart(c.procedure).err
            \/ NormalizedTSqlTableNamePart(c.procedure).name # "sp_rename"
    THEN l
    ELSE IF c.first.shape # "string" \/ Len(c.rest) # 1 THEN l
    ELSE IF c.rest[1].shape # "string" THEN l
    ELSE [l EXCEPT !.adviceList =
            @ \o NamingAdvice(l, c.rest[1].text, c.line)]

\* EnterExecute_body not returning for a schema-qualified procedure name.
EnterExecute_bodyAnySchema(l, c) ==
    IF ~c.hasServerDbSchema \/ ~c.hasDbSchema \/ ~c.hasProcSchema THEN l
    ELSE IF NormalizedTSqlTableNamePart(c.procedure).err
            \/ NormalizedTSqlTableNamePart(c.procedure).name # "sp_rename"
    THEN l
    ELSE IF ~IsStringLiteral(c.first) \/ Len(c.rest) # 1 THEN l
    ELSE IF ~IsStringLiteral(c.rest[1]) THEN l
    ELSE [l EXCEPT !.adviceList =
            @ \o NamingAdvice(l, UnwrapString(c.rest[1].text), c.line)]

\* EnterExecute_body running the checks on the first argument.
EnterExecute_bodyChecksOld(l, c) ==
    IF ~c.hasServerDbSchema \/ ~c.hasDbSchema \/ ~c.hasProcSchema
       \/ c.hasSchema
    THEN l
    ELSE IF NormalizedTSqlTableNamePart(c.procedure).err
            \/ NormalizedTSqlTableNamePart(c.procedure).name # "sp_rename"
    THEN l
    ELSE IF ~IsStringLiteral(c.first) \/ Len(c.rest) # 1 THEN l
    ELSE IF ~IsStringLiteral(c.rest[1]) THEN l
    ELSE [l EXCEPT !.adviceList =
            @ \o NamingAdvice(l, UnwrapString(c.first.text), c.line)]

\* namingTableListener.EnterExecute_body: the listener after the call.
EnterExecute_body(l, c) ==
    IF ~c.hasServerDbSchema THEN l
    ELSE IF ~c.hasDbSchema THEN l
    ELSE IF ~c.hasProcSchema THEN l
    ELSE IF c.hasSchema THEN l
    ELSE LET n == NormalizedTSqlTableNamePart(c.procedure) IN
    IF n.err THEN l
    ELSE IF n.name # "sp_rename" THEN l
    ELSE IF ~IsStringLiteral(c.first) THEN l
    ELSE IF Len(c.rest) # 1 THEN l
    ELSE IF ~IsStringLiteral(c.rest[1]) THEN l
    ELSE [l EXCEPT !.adviceList =
            @ \o NamingAdvice(l, UnwrapString(c.rest[1].text), c.line)]

\* generateAdvice without the default entry.
GenerateAdviceNoDefault(l) == [list |-> l.adviceList, err |-> FALSE]

\* generateAdvice whose default entry carries the wrong status.
GenerateAdviceWarnDefault(l) ==
    IF Len(l.adviceList) = 0
    THEN [list |-> <<Advice(Warn, Ok, "OK", <<>>, 0)>>, err |-> FALSE]
    ELSE [list |-> l.adviceList, err |-> FALSE]

\* generateAdvice adding the default entry to every list.
GenerateAdviceAlwaysDefault(l) ==
    [list |-> l.adviceList \o <<Advice(Success, Ok, "OK", <<>>, 0)>>,
     err |-> FALSE]

\* namingTableListener.generateAdvice
GenerateAdvice(l) ==
    IF Len(l.adviceList) = 0
    THEN [list |-> <<Advice(Success, Ok, "OK", <<>>, 0)>>, err |-> FALSE]
    ELSE [list |-> l.adviceList, err |-> FALSE]


(***************************************************************************)
(* The inputs of the model.                                                *)
(***************************************************************************)
UserOrders    == <<"U", "s", "e", "r", "O", "r", "d", "e", "r", "s">>
OrdersHistory == <<"o", "r", "d", "e", "r", "s", "_",
                   "h", "i", "s", "t", "o", "r", "y">>
NewTable      == <<"N", "e", "w", "T", "a", "b", "l", "e">>
OldTableToken == <<"'", "d", "b", "o", ".", "O", "l", "d", "_",
                   "T", "a", "b", "l", "e", "'">>

\* Table names: conforming and not, short and long.
Names == {<<"a">>, <<"U">>, UserOrders, OrdersHistory}

Quoted(name) == <<"'">> \o name \o <<"'">>

Lines == {1, 2}

\* The names that occur on the second line of a script as well.
SecondLineNames == {UserOrders, OrdersHistory, NewTable}

CreateTableNodes ==
    {CreateTableNode(n[1], n[2]) :
        n \in {x \in Names \X Lines : x[2] = 1 \/ x[1] \in SecondLineNames}}

\* sp_rename calls of the expected shape.
RenameNodes ==
    {RenameNode(n[2], "sp_rename", OldTableToken, Quoted(n[1])) :
        n \in {x \in (Names \cup {NewTable}) \X Lines :
                  x[2] = 1 \/ x[1] \in SecondLineNames}}

\* Procedure calls that are not a rename of the expected shape.
OtherExecuteNodes ==
    LET new == Quoted(UserOrders) IN
    { ExecuteBodyNode(1, 0, FALSE, "sp_rename", NilArg, <<>>),
      ExecuteBodyNode(1, 3, TRUE, "sp_rename",
                      Arg("string", OldTableToken, 1), <<StringArg(new)>>),
      RenameNode(1, "sp_help", OldTableToken, new),
      RenameNode(1, "?", OldTableToken, new),
      ExecuteBodyNode(1, 3, FALSE, "sp_rename", NilArg, <<>>),
      ExecuteBodyNode(1, 3, FALSE, "sp_rename",
                      Arg("string", OldTableToken, 0), <<>>),
      ExecuteBodyNode(1, 3, FALSE, "sp_rename",
                      Arg("noConstant", <<"@", "o">>, 1), <<StringArg(new)>>),
      ExecuteBodyNode(1, 3, FALSE, "sp_rename",
                      Arg("string", OldTableToken, 1),
                      <<Arg("notString", <<"1">>, 0)>>),
      ExecuteBodyNode(1, 3, FALSE, "sp_rename",
                      Arg("string", OldTableToken, 2),
                      <<StringArg(new), StringArg(new)>>) }

\* Another old-name literal, one the formats of the model match.
ShortOldToken == <<"'", "a", "'">>

\* sp_rename calls of the expected shape with the other old name.
RenameShortOldNodes ==
    {RenameNode(1, "sp_rename", ShortOldToken, Quoted(n)) :
        n \in {<<"a">>, NewTable}}

\* STRING tokens as the lexer yields them: '' (the empty string), '''a'''
\* (quotes inside the string are doubled), N'a' (a national string).
EmptyToken    == <<"'", "'">>
DoubledToken  == <<"'", "'", "'", "a", "'", "'", "'">>
NationalToken == <<"N", "'", "a", "'">>
LiteralTokens == {EmptyToken, DoubledToken, NationalToken}

\* sp_rename calls of the expected shape with these new-name literals.
RenameLiteralNodes ==
    {RenameNode(1, "sp_rename", OldTableToken, tok) : tok \in LiteralTokens}

\* EXEC sp_rename 'old', 'new', 'x' with the argument list nested to the
\* right: each execute_statement_arg holds the arguments after it, so the
\* first holds one argument, which holds the third.
NestedThreeArgNodes ==
    {ExecuteBodyNode(1, 3, FALSE, "sp_rename",
                     Arg("string", OldTableToken, 1),
                     <<Arg("string", Quoted(n), 1)>>) :
        n \in {UserOrders}}

\* EXEC [SP_RENAME] 'old', 'new': the procedure name in brackets.
BracketedRenameNodes ==
    {RenameNode(1, "[SP_RENAME]", OldTableToken, Quoted(UserOrders))}

Nodes == CreateTableNodes \cup RenameNodes \cup OtherExecuteNodes
            \cup {OtherNode(1)} \cup RenameShortOldNodes
            \cup RenameLiteralNodes \cup NestedThreeArgNodes
            \cup BracketedRenameNodes

\* The walker enters nodes in source order: lines never decrease.
InSourceOrder(tree) ==
    \A i \in 1..(Len(tree) - 1) : tree[i].line <= tree[i + 1].line

Trees ==
    {t \in UNION {[1..n -> Nodes] : n \in 0..MaxNodes} : InSourceOrder(t)}

NamingTable == "naming.table"

NamingRule(level, wellFormed, format, maxLength) ==
    [type |-> NamingTable, level |-> level,
     payload |-> [wellFormed |-> wellFormed, format |-> format,
                  maxLength |-> maxLength]]

\* Rules Check can evaluate.
ValidRules ==
    {r \in {NamingRule(lv, TRUE, f, m) :
               lv \in {"ERROR", "WARNING"}, f \in {SnakeFormat, LowerFormat},
               m \in {0, 1, 5}} :
        r.level = "ERROR" \/ r.payload.maxLength = 0}

\* Rules whose level or payload Check rejects.
InvalidRules ==
    { NamingRule("DISABLED", TRUE, SnakeFormat, 0),
      NamingRule("ERROR", FALSE, SnakeFormat, 0),
      NamingRule("ERROR", TRUE, InvalidFormat, 0) }

Contexts ==
    {[isTree |-> TRUE, tree |-> t, rule |-> r] :
        t \in Trees, r \in ValidRules}
    \cup
    {[isTree |-> it, tree |-> t, rule |-> r] :
        it \in BOOLEAN, t \in {t \in Trees : Len(t) <= 1},
        r \in InvalidRules \cup {NamingRule("ERROR", TRUE, SnakeFormat, 0)}}

NoResult == [list |-> <<>>, err |-> FALSE]

(***************************************************************************)
(* NamingTableAdvisor.Check, one step per listener call.                   *)
(***************************************************************************)
\* Check going on to the walk when the payload does not decode.
CheckSetupIgnoresPayloadError(c) ==
    LET level == NewStatusBySQLReviewRuleLevel(c.rule.level)
        p     == UnmarshalNamingRulePayloadAsRegexp(c.rule.payload)
    IN  IF ~c.isTree THEN [err |-> TRUE, listener |-> NoListener]
        ELSE IF level.err THEN [err |-> TRUE, listener |-> NoListener]
        ELSE [err |-> FALSE,
              listener |-> NewListener(level.status, c.rule.type,
                                       p.format, p.maxLength)]

\* Check up to the walk (part_000:34-53): the three ways to fail, or the
\* fresh listener.
CheckSetup(c) ==
    LET level == NewStatusBySQLReviewRuleLevel(c.rule.level)
        p     == UnmarshalNamingRulePayloadAsRegexp(c.rule.payload)
    IN  IF ~c.isTree THEN [err |-> TRUE, listener |-> NoListener]
        ELSE IF level.err THEN [err |-> TRUE, listener |-> NoListener]
        ELSE IF p.err THEN [err |-> TRUE, listener |-> NoListener]
        ELSE [err |-> FALSE,
              listener |-> NewListener(level.status, c.rule.type,
                                       p.format, p.maxLength)]

CheckBegin ==
    /\ pc = "start"
    /\ LET s == CheckSetup(ctx) IN
       IF s.err
       THEN /\ pc' = "done"
            /\ result' = [list |-> <<>>, err |-> TRUE]
            /\ UNCHANGED <<listener, pos>>
       ELSE /\ pc' = "walk"
            /\ listener' = s.listener
            /\ pos' = 1
            /\ UNCHANGED result
    /\ UNCHANGED <<ctx, convVars, againVars, parVars, regVars,
                 catVars, planVars>>

WalkCreate_table ==
    /\ pc = "walk"
    /\ pos <= Len(ctx.tree)
    /\ ctx.tree[pos].kind = "create_table"
    /\ listener' = EnterCreate_table(listener, ctx.tree[pos])
    /\ pos' = pos + 1
    /\ UNCHANGED <<ctx, pc, result, convVars, againVars, parVars, regVars,
                 catVars, planVars>>

WalkExecute_body ==
    /\ pc = "walk"
    /\ pos <= Len(ctx.tree)
    /\ ctx.tree[pos].kind = "execute_body"
    /\ listener' = EnterExecute_body(listener, ctx.tree[pos])
    /\ pos' = pos + 1
    /\ UNCHANGED <<ctx, pc, result, convVars, againVars, parVars, regVars,
                 catVars, planVars>>

\* BaseTSqlParserListener: every other production is a no-op.
WalkOther ==
    /\ pc = "walk"
    /\ pos <= Len(ctx.tree)
    /\ ctx.tree[pos].kind = "other"
    /\ pos' = pos + 1
    /\ UNCHANGED <<ctx, pc, listener, result, convVars,
                 againVars, parVars, regVars,
                 catVars, planVars>>

\* return listener.generateAdvice() (part_000:57)
CheckReturn ==
    /\ pc = "walk"
    /\ pos > Len(ctx.tree)
    /\ result' = GenerateAdvice(listener)
    /\ listener' = [listener EXCEPT !.adviceList = result'.list]
    /\ pc' = "done"
    /\ UNCHANGED <<ctx, pos, convVars, againVars, parVars, regVars,
                 catVars, planVars>>

ConvIdle ==
    /\ cpc = "idle"
    /\ policyRule = <<>>
    /\ ruleTemplate = <<>>
    /\ tmplResult = <<>>
    /\ ruleResult = <<>>

\* No invocation of Check.
AdvisorIdle ==
    /\ ctx = <<>>
    /\ pc = "idle"
    /\ pos = 0
    /\ listener = NoListener
    /\ result = NoResult

\* One invocation, nothing before it.
AgainIdle ==
    /\ runs = 1
    /\ previous = NoResult

ParIdle == calls = <<>>

RegIdle ==
    /\ registry = <<>>
    /\ registered = <<>>
    /\ regErr = FALSE

\* No catalog built.
CatIdle ==
    /\ kpc = "idle"
    /\ templateList = <<>>
    /\ TEMPLATE_LIST_V2 = <<>>
    /\ passed = <<>>
    /\ returned = <<>>

\* No plan being built.
PlanIdle ==
    /\ ppc = "idle"
    /\ params = <<>>
    /\ uid = 0
    /\ sheets = <<>>
    /\ plan = <<>>
    /\ todo = <<>>

Init ==
    /\ ctx \in Contexts
    /\ pc = "start"
    /\ pos = 0
    /\ listener = NoListener
    /\ result = NoResult
    /\ ConvIdle
    /\ AgainIdle
    /\ ParIdle
    /\ RegIdle
    /\ CatIdle
    /\ PlanIdle

Next ==
    \/ CheckBegin
    \/ WalkCreate_table
    \/ WalkExecute_body
    \/ WalkOther
    \/ CheckReturn

Spec == Init /\ [][Next]_vars


(***************************************************************************)
(* Check called again with the same ctx: the caller keeps what the         *)
(* invocation returned and calls Check once more.  The advisor has no      *)
(* field (part_000:29-30); the listener of the finished invocation is      *)
(* garbage that the new invocation cannot reach.                           *)
(***************************************************************************)
\* Largest number of invocations on the same inputs.
MaxRuns == 2

AgainNodes ==
    { CreateTableNode(UserOrders, 1), CreateTableNode(<<"a">>, 1),
      RenameNode(1, "sp_rename", OldTableToken, Quoted(NewTable)),
      RenameNode(1, "sp_help", OldTableToken, Quoted(UserOrders)),
      CreateTableNode(OrdersHistory, 2), OtherNode(1) }

AgainContexts ==
    {c \in Contexts : \A i \in 1..Len(c.tree) : c.tree[i] \in AgainNodes}

InitAgain ==
    /\ ctx \in AgainContexts
    /\ pc = "start"
    /\ pos = 0
    /\ listener = NoListener
    /\ result = NoResult
    /\ ConvIdle
    /\ AgainIdle
    /\ ParIdle
    /\ RegIdle
    /\ CatIdle
    /\ PlanIdle

\* The caller calls Check(ctx, _) again after it returned.
CheckAgain ==
    /\ pc = "done"
    /\ runs < MaxRuns
    /\ runs' = runs + 1
    /\ previous' = result
    /\ result' = NoResult
    /\ pc' = "start"
    /\ UNCHANGED <<ctx, pos, listener, convVars, parVars, regVars,
                 catVars, planVars>>

NextAgain ==
    \/ CheckBegin
    \/ WalkCreate_table
    \/ WalkExecute_body
    \/ WalkOther
    \/ CheckReturn
    \/ CheckAgain

SpecAgain == InitAgain /\ [][NextAgain]_vars


(***************************************************************************)
(* Invocations of Check running at the same time on the one registered     *)
(* advisor (part_000:25), a step of one between any two steps of another.  *)
(***************************************************************************)
Invocations == {1, 2}

\* The listener call the walker makes for a node (part_000:55).
EnterNode(l, c) ==
    CASE c.kind = "create_table" -> EnterCreate_table(l, c)
      [] c.kind = "execute_body" -> EnterExecute_body(l, c)
      [] OTHER -> l

\* Check as a function: what an invocation that runs alone returns.
RECURSIVE WalkFrom(_, _, _)
WalkFrom(l, tree, i) ==
    IF i > Len(tree) THEN l
    ELSE WalkFrom(EnterNode(l, tree[i]), tree, i + 1)

CheckAlone(c) ==
    LET s == CheckSetup(c) IN
    IF s.err THEN [list |-> <<>>, err |-> TRUE]
    ELSE GenerateAdvice(WalkFrom(s.listener, c.tree, 1))

\* All invocations working on the listener of the first.
ListenerShared(i) == 1

\* The listener invocation i works on: the one it constructed itself, held
\* in a local variable of the invocation (part_000:48).
ListenerOf(i) == i

ParNodes ==
    { CreateTableNode(UserOrders, 1),
      RenameNode(1, "sp_rename", OldTableToken, Quoted(NewTable)),
      OtherNode(1) }

ParRules ==
    { NamingRule("ERROR", TRUE, SnakeFormat, 5),
      NamingRule("WARNING", TRUE, LowerFormat, 0),
      NamingRule("ERROR", TRUE, InvalidFormat, 0) }

ParContexts ==
    {[isTree |-> TRUE, tree |-> t, rule |-> r] :
        t \in UNION {[1..n -> ParNodes] : n \in 0..MaxNodes}, r \in ParRules}

NewCall(c) ==
    [ctx |-> c, pc |-> "start", pos |-> 0, listener |-> NoListener,
     result |-> NoResult]

InitPar ==
    /\ calls \in {[i \in Invocations |-> NewCall(f[i])] :
                    f \in [Invocations -> ParContexts]}
    /\ AdvisorIdle
    /\ ConvIdle
    /\ AgainIdle
    /\ RegIdle
    /\ CatIdle
    /\ PlanIdle

ParCheckBegin(i) ==
    /\ calls[i].pc = "start"
    /\ LET s == CheckSetup(calls[i].ctx) IN
       IF s.err
       THEN calls' = [calls EXCEPT ![i].pc = "done",
                                   ![i].result = [list |-> <<>>, err |-> TRUE]]
       ELSE calls' = [[calls EXCEPT ![ListenerOf(i)].listener = s.listener]
                        EXCEPT ![i].pc = "walk", ![i].pos = 1]
    /\ UNCHANGED <<advisorVars, convVars, againVars, regVars,
                 catVars, planVars>>

ParWalk(i) ==
    /\ calls[i].pc = "walk"
    /\ calls[i].pos <= Len(calls[i].ctx.tree)
    /\ calls' = [[calls EXCEPT ![ListenerOf(i)].listener =
                    EnterNode(@, calls[i].ctx.tree[calls[i].pos])]
                   EXCEPT ![i].pos = @ + 1]
    /\ UNCHANGED <<advisorVars, convVars, againVars, regVars,
                 catVars, planVars>>

ParCheckReturn(i) ==
    /\ calls[i].pc = "walk"
    /\ calls[i].pos > Len(calls[i].ctx.tree)
    /\ LET r == GenerateAdvice(calls[ListenerOf(i)].listener) IN
       calls' = [[calls EXCEPT ![ListenerOf(i)].listener.adviceList = r.list]
                   EXCEPT ![i].result = r, ![i].pc = "done"]
    /\ UNCHANGED <<advisorVars, convVars, againVars, regVars,
                 catVars, planVars>>

NextPar ==
    \/ \E i \in Invocations : ParCheckBegin(i)
    \/ \E i \in Invocations : ParWalk(i)
    \/ \E i \in Invocations : ParCheckReturn(i)

SpecPar == InitPar /\ [][NextPar]_vars


(***************************************************************************)
(* The advisor registry.  init() of the package registers the advisor      *)
(* (part_000:24-26); advisor.Register and the lookup are modelled from     *)
(* spec.md 4.1.                                                            *)
(***************************************************************************)
\* Largest number of calls of Register.
MaxRegistrations == 3

MSSQL == "MSSQL"
MSSQLNamingTableConvention == NamingTable
NamingTableAdvisor == "NamingTableAdvisor"

Dialects == {MSSQL, "MYSQL"}
RegisteredRuleTypes == {MSSQLNamingTableConvention, "column.required"}
Advisors == {NamingTableAdvisor, "ColumnRequireAdvisor"}
NoAdvisor == "none"

RegistryKeys == Dialects \X RegisteredRuleTypes

\* register overwriting the entry of the key.
RegisterOverwrites(dialect, ruleType, a) ==
    /\ Len(registered) < MaxRegistrations
    /\ registered' = Append(registered, <<dialect, ruleType, a>>)
    /\ registry' = [registry EXCEPT ![<<dialect, ruleType>>] = a]
    /\ regErr' = FALSE
    /\ UNCHANGED <<advisorVars, convVars, againVars, parVars,
                 catVars, planVars>>

\* register(dialect, ruleType, advisor): a configuration error if the key
\* has an entry, the new entry otherwise.
Register(dialect, ruleType, a) ==
    /\ Len(registered) < MaxRegistrations
    /\ registered' = Append(registered, <<dialect, ruleType, a>>)
    /\ IF registry[<<dialect, ruleType>>] # NoAdvisor
       THEN /\ regErr' = TRUE
            /\ UNCHANGED registry
       ELSE /\ regErr' = FALSE
            /\ registry' = [registry EXCEPT ![<<dialect, ruleType>>] = a]
    /\ UNCHANGED <<advisorVars, convVars, againVars, parVars,
                 catVars, planVars>>

\* lookup(dialect, ruleType)
Lookup(dialect, ruleType) == registry[<<dialect, ruleType>>]

InitReg ==
    /\ registry = [k \in RegistryKeys |-> NoAdvisor]
    /\ registered = <<>>
    /\ regErr = FALSE
    /\ AdvisorIdle
    /\ ConvIdle
    /\ AgainIdle
    /\ ParIdle
    /\ CatIdle
    /\ PlanIdle

\* init() of this package (part_000:24-26)
InitNamingTable ==
    Register(MSSQL, MSSQLNamingTableConvention, NamingTableAdvisor)

\* init() of another advisor package, or of this one by mistake
InitOtherAdvisor ==
    \E d \in Dialects, r \in RegisteredRuleTypes, a \in Advisors :
        /\ <<d, r, a>> # <<MSSQL, MSSQLNamingTableConvention, NamingTableAdvisor>>
        /\ Register(d, r, a)

NextReg ==
    \/ InitNamingTable
    \/ InitOtherAdvisor

SpecReg == InitReg /\ [][NextReg]_vars


(***************************************************************************)
(* Vocabulary of the statements about Check.                               *)
(***************************************************************************)
SuccessAdvice == Advice(Success, Ok, "OK", <<>>, 0)

\* The status a violation of the rule of this invocation is reported with.
ConfiguredStatus == IF ctx.rule.level = "ERROR" THEN Error ELSE Warn

ConfiguredFormat == ctx.rule.payload.format
ConfiguredMaxLength == ctx.rule.payload.maxLength

\* The pattern matches the whole of s.
FullMatch(format, s) == (Len(s) + 1) \in Ends(RegexpCompile(format).re, s, 1)

FormatFinding(n, line) ==
    Advice(ConfiguredStatus, NamingTableConventionMismatch, NamingTable,
           n \o <<" mismatches table naming convention, naming format should be ",
                  "\"", ConfiguredFormat, "\"">>, line)

LengthFinding(n, line) ==
    Advice(ConfiguredStatus, NamingTableConventionMismatch, NamingTable,
           n \o <<" mismatches table naming convention, its length should be within ",
                  ToString(ConfiguredMaxLength), " characters">>, line)

IsLengthAdvice(a) == \E i \in 1..Len(a.Content) : a.Content[i] = LengthText
IsFormatAdvice(a) == \E i \in 1..Len(a.Content) : a.Content[i] = FormatText

\* The walker enters the node at pos in this step.
EnterStep == pc = "walk" /\ pos <= Len(ctx.tree) /\ pos' = pos + 1
EnteredNode == ctx.tree[pos]

\* What the step appended to the listener's adviceList.
Appended ==
    SubSeq(listener'.adviceList, Len(listener.adviceList) + 1,
           Len(listener'.adviceList))
KeepsEarlierAdvice ==
    /\ Len(listener'.adviceList) >= Len(listener.adviceList)
    /\ SubSeq(listener'.adviceList, 1, Len(listener.adviceList))
         = listener.adviceList

InSeq(x, sq) == \E i \in 1..Len(sq) : sq[i] = x

\* The step entered a node whose name n both checks run on: a table
\* creation declaring n, or a rename call of the expected shape whose
\* new-name literal is 'n'.
ChecksName(n) ==
    /\ EnterStep
    /\ \/ EnteredNode.kind = "create_table" /\ EnteredNode.name = n
       \/ EnteredNode = RenameNode(EnteredNode.line, "sp_rename",
                                   OldTableToken, Quoted(n))

CheckedNames == Names \cup {NewTable}

\* Check returns in this step.
ReturnStep == pc # "done" /\ pc' = "done"


(***************************************************************************)
(* Statements about NamingTableAdvisor.Check.                              *)
(***************************************************************************)
\* C1: whatever nodes the walk visited (none, create-table nodes, execute
\* nodes, any mix), Check returns an error or a non-empty Finding list.
C1_ErrorOrNonEmpty ==
    pc = "done" => (result.err \/ Len(result.list) > 0)

C1_Witness ==
    /\ pc = "done"
    /\ ~result.err
    /\ Len(ctx.tree) = 2
    /\ ctx.tree[1].kind = "create_table"
    /\ ctx.tree[2].kind = "execute_body"
    /\ Len(result.list) = 3

\* Every node of the tree is one the listener ignores or a table creation
\* whose name the pattern matches and whose length is within the maximum.
OnlyConformingCreations ==
    \A i \in 1..Len(ctx.tree) :
        \/ ctx.tree[i].kind = "other"
        \/ /\ ctx.tree[i].kind = "create_table"
           /\ MatchString(ConfiguredFormat, ctx.tree[i].name)
           /\ \/ ConfiguredMaxLength = 0
              \/ Len(ctx.tree[i].name) <= ConfiguredMaxLength

\* C2: when the walk found no violation (the listener reaches the end of
\* the walk with nothing recorded; in particular when the tree holds only
\* conforming table creations), Check returns exactly one Finding, with
\* status Success, code OK and empty content, and no error.
C2_SuccessWhenNoViolation ==
    [][(/\ pc = "walk"
        /\ ReturnStep
        /\ (listener.adviceList = <<>> \/ OnlyConformingCreations))
       => /\ result' = [list |-> <<SuccessAdvice>>, err |-> FALSE]
          /\ result'.list[1].Status = Success
          /\ result'.list[1].Code = Ok
          /\ result'.list[1].Content = <<>>]_vars

C2_Witness ==
    /\ pc = "done"
    /\ result = [list |-> <<SuccessAdvice>>, err |-> FALSE]
    /\ Len(ctx.tree) = 2
    /\ ctx.tree[1].kind = "create_table"
    /\ ctx.tree[2].kind = "execute_body"
    /\ ctx.tree[2] \in RenameNodes


\* C7 as claimed: on a table-creation node with declared name n the format
\* Finding is emitted if and only if n does not FULLY match the pattern.
C7_FormatIffNotFullMatch ==
    [][\A n \in Names :
        (EnterStep /\ EnteredNode.kind = "create_table" /\ EnteredNode.name = n)
        => (InSeq(FormatFinding(n, EnteredNode.line), Appended)
              <=> ~FullMatch(ConfiguredFormat, n))]_vars

\* C7, amended: on a table-creation node with declared name n the format
\* Finding (status the rule's level, code NamingTableConventionMismatch,
\* title the rule type, content '<n> mismatches table naming convention,
\* naming format should be <pattern>', line of the node) is emitted if and
\* only if the pattern matches nowhere in n; for a pattern anchored with
\* ^ and $ that is: if and only if n does not fully match.  With format
\* ^[a-z]+(_[a-z]+)*$ and maxLength 0, creating UserOrders yields exactly
\* one Finding, the format one.
C7_FormatIffNoMatch ==
    [][/\ \A n \in Names :
            (EnterStep /\ EnteredNode.kind = "create_table"
               /\ EnteredNode.name = n)
            => /\ KeepsEarlierAdvice
               /\ InSeq(FormatFinding(n, EnteredNode.line), Appended)
                    <=> ~MatchString(ConfiguredFormat, n)
               /\ ConfiguredFormat = SnakeFormat
                    => (InSeq(FormatFinding(n, EnteredNode.line), Appended)
                          <=> ~FullMatch(SnakeFormat, n))
               /\ \A i \in 1..Len(Appended) :
                    IsFormatAdvice(Appended[i])
                      => Appended[i] = FormatFinding(n, EnteredNode.line)
       /\ (/\ ReturnStep
           /\ Len(ctx.tree) = 1
           /\ ctx.tree[1].kind = "create_table"
           /\ ctx.tree[1].name = UserOrders
           /\ ConfiguredFormat = SnakeFormat
           /\ ConfiguredMaxLength = 0
           /\ ctx.isTree /\ ctx.rule \in ValidRules)
          => result' = [list |-> <<FormatFinding(UserOrders, ctx.tree[1].line)>>,
                        err |-> FALSE]]_vars

C7_Witness ==
    /\ pc = "done"
    /\ ctx.tree = <<CreateTableNode(UserOrders, 1)>>
    /\ ConfiguredFormat = SnakeFormat
    /\ ConfiguredMaxLength = 0
    /\ Len(result.list) = 1
    /\ IsFormatAdvice(result.list[1])
    /\ result.list[1].Status = Warn

\* C8: for a name n the checks run on (a created table's name, a rename's
\* new name) the length Finding '<n> mismatches table naming convention,
\* its length should be within <N> characters' is emitted if and only if
\* N > 0 and len(n) > N; with N = 0 no length Finding is ever in the list;
\* with N = 5 creating the conforming orders_history yields exactly one
\* Finding, the length one.
C8_LengthIffTooLong ==
    [][/\ \A n \in CheckedNames :
            ChecksName(n)
            => /\ InSeq(LengthFinding(n, EnteredNode.line), Appended)
                    <=> (ConfiguredMaxLength > 0
                         /\ Len(n) > ConfiguredMaxLength)
               /\ \A i \in 1..Len(Appended) :
                    IsLengthAdvice(Appended[i])
                      => Appended[i] = LengthFinding(n, EnteredNode.line)
       /\ (pc' = "walk" /\ ConfiguredMaxLength = 0)
            => \A i \in 1..Len(listener'.adviceList) :
                  ~IsLengthAdvice(listener'.adviceList[i])
       /\ (/\ ReturnStep
           /\ pc = "walk"
           /\ Len(ctx.tree) = 1
           /\ ctx.tree[1].kind = "create_table"
           /\ ctx.tree[1].name = OrdersHistory
           /\ ConfiguredFormat = SnakeFormat
           /\ ConfiguredMaxLength = 5)
          => result' = [list |-> <<LengthFinding(OrdersHistory,
                                                 ctx.tree[1].line)>>,
                        err |-> FALSE]]_vars

C8_Witness ==
    /\ pc = "done"
    /\ ctx.tree = <<CreateTableNode(OrdersHistory, 2)>>
    /\ ConfiguredFormat = SnakeFormat
    /\ ConfiguredMaxLength = 5
    /\ Len(result.list) = 1
    /\ IsLengthAdvice(result.list[1])
    /\ ~IsFormatAdvice(result.list[1])

\* C9: the two checks are independent, on creation nodes and on rename
\* calls alike: the node adds the format Finding exactly when the format
\* check fails and the length Finding exactly when the length check fails,
\* each whatever the other does; a name failing both adds exactly two
\* Findings, the format one then the length one.
C9_ChecksIndependent ==
    [][\A n \in CheckedNames :
        ChecksName(n)
        => LET formatFails == ~MatchString(ConfiguredFormat, n)
               lengthFails == ConfiguredMaxLength > 0
                                /\ Len(n) > ConfiguredMaxLength
           IN  /\ KeepsEarlierAdvice
               /\ Len(Appended) = (IF formatFails THEN 1 ELSE 0)
                                    + (IF lengthFails THEN 1 ELSE 0)
               /\ formatFails
                    => Appended[1] = FormatFinding(n, EnteredNode.line)
               /\ lengthFails
                    => Appended[Len(Appended)]
                         = LengthFinding(n, EnteredNode.line)
               /\ (formatFails /\ lengthFails)
                    => Appended = <<FormatFinding(n, EnteredNode.line),
                                    LengthFinding(n, EnteredNode.line)>>]_vars

C9_Witness ==
    /\ pc = "done"
    /\ ctx.tree = <<CreateTableNode(UserOrders, 1),
                    RenameNode(2, "sp_rename", OldTableToken,
                               Quoted(NewTable))>>
    /\ ConfiguredFormat = SnakeFormat
    /\ ConfiguredMaxLength = 5
    /\ Len(result.list) = 4
    /\ IsFormatAdvice(result.list[1]) /\ IsLengthAdvice(result.list[2])
    /\ IsFormatAdvice(result.list[3]) /\ IsLengthAdvice(result.list[4])

\* The name a Finding's content starts with.
RECURSIVE NamedBy(_)
NamedBy(content) ==
    IF content = <<>> \/ Head(content) \in {FormatText, LengthText}
    THEN <<>>
    ELSE <<Head(content)>> \o NamedBy(Tail(content))

\* n matches the configured format and is within the configured maximum
\* length, if one is configured.
Conforms(n) ==
    /\ MatchString(ConfiguredFormat, n)
    /\ ConfiguredMaxLength > 0 => Len(n) <= ConfiguredMaxLength

\* C10: a name that matches the configured format and is within the
\* configured maximum length (or no maximum is configured) gets no format
\* Finding and no length Finding: the node that declares it, a creation or
\* a rename with it as new name, adds nothing to the list, and no Finding
\* of the list names it.
C10_ConformingNameNoFinding ==
    [][/\ \A n \in CheckedNames :
            (ChecksName(n) /\ Conforms(n))
              => listener'.adviceList = listener.adviceList
       /\ pc' \in {"walk", "done"} /\ ~result'.err
            => \A i \in 1..Len(listener'.adviceList) :
                  listener'.adviceList[i] # SuccessAdvice
                    => ~Conforms(NamedBy(listener'.adviceList[i].Content))]_vars

C10_Witness ==
    /\ pc = "done"
    /\ ctx.tree = <<CreateTableNode(<<"a">>, 1),
                    RenameNode(1, "sp_rename", OldTableToken,
                               Quoted(OrdersHistory))>>
    /\ ConfiguredFormat = SnakeFormat
    /\ ConfiguredMaxLength = 0
    /\ result.list = <<SuccessAdvice>>


\* A token without its surrounding pair of single quotes, if it has one.
Unquoted(tok) ==
    IF Len(tok) >= 2 /\ Head(tok) = "'" /\ tok[Len(tok)] = "'"
    THEN [i \in 1..(Len(tok) - 2) |-> tok[i + 1]]
    ELSE tok

\* The number of positional arguments of a procedure call: the first one
\* and every argument held, directly or not, by it.
PositionalArgs(c) ==
    IF c.first.shape = "nil" THEN 0
    ELSE 1 + Len(c.rest)
           + (IF Len(c.rest) >= 1 THEN c.rest[1].nested ELSE 0)
           + (IF Len(c.rest) >= 2 THEN c.rest[2].nested ELSE 0)

\* An unqualified call of sp_rename.
CallsRename(c) ==
    /\ c.kind = "execute_body"
    /\ c.hasServerDbSchema /\ c.hasDbSchema /\ c.hasProcSchema
    /\ ~c.hasSchema
    /\ c.procedure \in {"sp_rename", "[SP_RENAME]"}

\* A rename call with exactly two positional arguments, both string
\* literals.
TwoLiteralRename(c) ==
    /\ CallsRename(c)
    /\ PositionalArgs(c) = 2
    /\ c.first.shape = "string"
    /\ c.rest[1].shape = "string"

OldTokens == {OldTableToken, ShortOldToken}

\* C11: on a rename call with exactly two positional string-literal
\* arguments both checks run against the second argument, the new name,
\* only: the node adds one Finding per check the new name fails, every
\* Finding it adds names the new name and carries the node's line, and what
\* it adds is the same whatever the old name is.  With old name
\* 'dbo.Old_Table', new name 'NewTable', the lowercase-snake format and no
\* maximum length, Check returns exactly one Finding, naming NewTable.
C11_RenameChecksNewNameOnly ==
    [][/\ (EnterStep /\ TwoLiteralRename(EnteredNode))
          => LET new == Unquoted(EnteredNode.rest[1].text) IN
             /\ KeepsEarlierAdvice
             /\ Len(Appended)
                  = (IF MatchString(ConfiguredFormat, new) THEN 0 ELSE 1)
                    + (IF ConfiguredMaxLength > 0
                          /\ Len(new) > ConfiguredMaxLength THEN 1 ELSE 0)
             /\ \A i \in 1..Len(Appended) :
                  /\ NamedBy(Appended[i].Content) = new
                  /\ Appended[i].Line = EnteredNode.line
             /\ \A o \in OldTokens :
                  EnterExecute_body(listener,
                                    [EnteredNode EXCEPT !.first.text = o])
                    = listener'
       /\ (/\ ReturnStep
           /\ pc = "walk"
           /\ Len(ctx.tree) = 1
           /\ ctx.tree[1] = RenameNode(ctx.tree[1].line, "sp_rename",
                                       OldTableToken, Quoted(NewTable))
           /\ ConfiguredFormat = SnakeFormat
           /\ ConfiguredMaxLength = 0)
          => result' = [list |-> <<FormatFinding(NewTable, ctx.tree[1].line)>>,
                        err |-> FALSE]]_vars

C11_Witness ==
    /\ pc = "done"
    /\ ctx.tree = <<RenameNode(1, "sp_rename", ShortOldToken,
                               Quoted(NewTable))>>
    /\ ConfiguredFormat = SnakeFormat
    /\ ConfiguredMaxLength = 5
    /\ result.list = <<FormatFinding(NewTable, 1), LengthFinding(NewTable, 1)>>


\* C12: a rename call with three positional arguments adds no naming
\* Finding, whatever the arguments are; when the tree holds nothing else,
\* Check returns the single Success Finding.
C12_ThreeArgumentsNoFinding ==
    [][/\ (/\ EnterStep
           /\ CallsRename(EnteredNode)
           /\ PositionalArgs(EnteredNode) = 3)
          => listener'.adviceList = listener.adviceList
       /\ (/\ ReturnStep
           /\ pc = "walk"
           /\ Len(ctx.tree) = 1
           /\ CallsRename(ctx.tree[1])
           /\ PositionalArgs(ctx.tree[1]) = 3)
          => result' = [list |-> <<SuccessAdvice>>, err |-> FALSE]]_vars

\* The procedure names the resolution of the model succeeds on.
ResolvableProcedures == {"sp_rename", "[SP_RENAME]", "sp_help"}

\* A procedure call the listener has to skip: a sub-node of the qualified
\* name chain is missing, the procedure name does not resolve, or the call
\* is a rename without exactly two string-literal arguments.
SkippedCall(c) ==
    /\ c.kind = "execute_body"
    /\ \/ ~c.hasServerDbSchema \/ ~c.hasDbSchema \/ ~c.hasProcSchema
       \/ c.procedure \notin ResolvableProcedures
       \/ CallsRename(c) /\ ~TwoLiteralRename(c)

\* The Findings the two checks give for name n at a line.
FindingsFor(n, line) ==
    (IF MatchString(ConfiguredFormat, n) THEN <<>>
     ELSE <<FormatFinding(n, line)>>)
    \o (IF ConfiguredMaxLength > 0 /\ Len(n) > ConfiguredMaxLength
        THEN <<LengthFinding(n, line)>> ELSE <<>>)

\* The Findings of the creations and well-shaped renames of a tree, in
\* walk order.
RECURSIVE Reported(_)
Reported(tree) ==
    IF tree = <<>> THEN <<>>
    ELSE (IF Head(tree).kind = "create_table"
          THEN FindingsFor(Head(tree).name, Head(tree).line)
          ELSE IF TwoLiteralRename(Head(tree))
          THEN FindingsFor(Unquoted(Head(tree).rest[1].text),
                           Head(tree).line)
          ELSE <<>>)
         \o Reported(Tail(tree))

\* C13: a procedure call that is not of the expected rename shape (wrong
\* argument count, an argument that is not a string literal, a missing
\* sub-node in the chain of the qualified name) or whose procedure name
\* does not resolve is no error and adds no Finding, and the walk goes on:
\* Check returns the Findings of the nodes before and after it.
C13_MalformedCallSkipped ==
    [][/\ (EnterStep /\ SkippedCall(EnteredNode))
          => /\ listener' = listener
             /\ pc' = "walk"
             /\ result' = NoResult
       /\ (ReturnStep /\ pc = "walk")
          => /\ ~result'.err
             /\ result'.list = IF Reported(ctx.tree) = <<>>
                               THEN <<SuccessAdvice>>
                               ELSE Reported(ctx.tree)]_vars


\* The inputs of this invocation carry a configuration error.
SetupFails ==
    \/ ~ctx.isTree
    \/ ctx.rule.level \notin {"ERROR", "WARNING"}
    \/ ~ctx.rule.payload.wellFormed
    \/ ctx.rule.payload.format = InvalidFormat

\* C14: with a configuration error at setup (a tree handle of the wrong
\* kind, an unrecognised rule level, a malformed payload, a format that is
\* no regular expression) Check returns an error and no Finding list, and
\* the tree is not walked: no listener is built, no node is entered and no
\* Finding exists before the error is returned.
C14_SetupErrorBeforeWalk ==
    SetupFails
    => /\ pc \in {"start", "done"}
       /\ pos = 0
       /\ listener = NoListener
       /\ pc = "start" => result = NoResult
       /\ pc = "done" => result = [list |-> <<>>, err |-> TRUE]

C14_Witness ==
    /\ pc = "done"
    /\ ctx.isTree
    /\ ctx.rule = NamingRule("ERROR", TRUE, InvalidFormat, 0)
    /\ ctx.tree = <<CreateTableNode(UserOrders, 1)>>
    /\ result.err


\* C15: idempotence.  Check run again on the same tree and the same rule
\* returns what the invocation before it returned: the same error, or the
\* same Findings in the same order with the same statuses, contents and
\* lines; nothing of an invocation is left for the next one.
C15_SameInputsSameFindings ==
    (pc = "done" /\ runs > 1) => result = previous

C15_Witness ==
    /\ pc = "done"
    /\ runs = 2
    /\ ctx.tree = <<CreateTableNode(UserOrders, 1),
                    CreateTableNode(OrdersHistory, 2)>>
    /\ ConfiguredFormat = SnakeFormat
    /\ ConfiguredMaxLength = 5
    /\ result.list = <<FormatFinding(UserOrders, 1),
                       LengthFinding(UserOrders, 1),
                       LengthFinding(OrdersHistory, 2)>>
    /\ previous = result


\* C16: invocations of Check that run at the same time on the registered
\* advisor, their walk steps interleaved in any way, each return what they
\* return when run alone: the same error, or the same Finding list; each
\* has its own accumulator, and no Finding of one gets into the result of
\* another.
C16_ConcurrentAsAlone ==
    \A i \in Invocations :
        /\ calls[i].pc = "done" => calls[i].result = CheckAlone(calls[i].ctx)
        /\ calls[i].pc = "walk"
             => /\ Len(calls[i].listener.adviceList)
                     <= Len(CheckAlone(calls[i].ctx).list)
                /\ calls[i].listener.adviceList
                     = SubSeq(CheckAlone(calls[i].ctx).list, 1,
                              Len(calls[i].listener.adviceList))

C16_Witness ==
    /\ calls[1].pc = "done" /\ calls[2].pc = "done"
    /\ calls[1].ctx.rule = NamingRule("ERROR", TRUE, SnakeFormat, 5)
    /\ calls[2].ctx.rule = NamingRule("WARNING", TRUE, LowerFormat, 0)
    /\ Len(calls[1].ctx.tree) = 2 /\ Len(calls[2].ctx.tree) = 2
    /\ calls[1].ctx.tree = calls[2].ctx.tree
    /\ Len(calls[1].result.list) = 4
    /\ calls[2].result.list = <<SuccessAdvice>>


\* The advisor of the first registration for a key among the calls made.
RECURSIVE FirstRegistered(_, _)
FirstRegistered(k, regs) ==
    IF regs = <<>> THEN NoAdvisor
    ELSE IF <<Head(regs)[1], Head(regs)[2]>> = k THEN Head(regs)[3]
    ELSE FirstRegistered(k, Tail(regs))

\* C17: register(dialect, ruleType, advisor) fails with a configuration
\* error if the key (dialect, ruleType) has an entry already, and leaves
\* the registry as it is; otherwise it succeeds and enters the advisor.
\* So after any sequence of registrations each key has at most one
\* advisor and lookup returns the first one registered for it.
C17_RegisterOncePerKey ==
    [][Len(registered') = Len(registered) + 1
       => LET call == registered'[Len(registered')]
              key  == <<call[1], call[2]>>
          IN  /\ registry[key] # NoAdvisor
                   => (regErr' /\ registry' = registry)
              /\ registry[key] = NoAdvisor
                   => (~regErr' /\ registry' = [registry EXCEPT ![key] = call[3]])
              /\ \A k \in RegistryKeys :
                   registry'[k] = FirstRegistered(k, registered')]_vars

C17_Witness ==
    /\ Len(registered) = 3
    /\ registered[1] = <<MSSQL, MSSQLNamingTableConvention, NamingTableAdvisor>>
    /\ registered[2] = <<MSSQL, MSSQLNamingTableConvention,
                         "ColumnRequireAdvisor">>
    /\ regErr
    /\ Lookup(MSSQL, MSSQLNamingTableConvention) = NamingTableAdvisor


\* The new-name literals of the rename calls of the model.
NewNameTokens == {Quoted(n) : n \in CheckedNames} \cup LiteralTokens

\* C20: the new-name literal of a rename call is unwrapped by removing one
\* pair of surrounding quotes if it has one ('''a''' gives ''a'', '' gives
\* the empty name) and is left as it is otherwise (N'a' stays N'a'); the
\* unwrapped text is the name the format and length checks run on and the
\* name the Finding messages show.
C20_LiteralUnwrappedOnce ==
    [][\A tok \in NewNameTokens :
        (/\ EnterStep
         /\ TwoLiteralRename(EnteredNode)
         /\ EnteredNode.rest[1].text = tok)
        => LET name == IF tok[1] = "'" /\ tok[Len(tok)] = "'"
                       THEN SubSeq(tok, 2, Len(tok) - 1)
                       ELSE tok
           IN  /\ Appended = FindingsFor(name, EnteredNode.line)
               /\ tok = DoubledToken => name = <<"'", "'", "a", "'", "'">>
               /\ tok = NationalToken => name = NationalToken
               /\ tok = EmptyToken => name = <<>>]_vars

C20_Witness ==
    /\ pc = "done"
    /\ ctx.tree = <<RenameNode(1, "sp_rename", OldTableToken, DoubledToken)>>
    /\ ConfiguredFormat = SnakeFormat
    /\ ConfiguredMaxLength = 1
    /\ result.list = <<FormatFinding(<<"'", "'", "a", "'", "'">>, 1),
                       LengthFinding(<<"'", "'", "a", "'", "'">>, 1)>>


\* The procedure names that normalise to sp_rename.
RenameProcedures == {"sp_rename", "[SP_RENAME]"}

\* A call of sp_rename with a schema qualifier, two literals as arguments.
QualifiedRenameNode ==
    ExecuteBodyNode(1, 3, TRUE, "sp_rename",
                    Arg("string", OldTableToken, 1),
                    <<StringArg(Quoted(UserOrders))>>)

\* C21: a procedure call adds naming Findings only if its procedure name
\* has no schema qualifier and normalises to sp_rename; a call with a
\* schema qualifier, or of any other procedure, adds no Finding, whatever
\* its arguments are.
C21_OnlyUnqualifiedRename ==
    [][(EnterStep /\ EnteredNode.kind = "execute_body")
       => /\ Appended # <<>>
               => /\ ~EnteredNode.hasSchema
                  /\ EnteredNode.procedure \in RenameProcedures
          /\ (EnteredNode.hasSchema
              \/ EnteredNode.procedure \notin RenameProcedures)
               => listener' = listener]_vars

C21_Witness ==
    /\ pc = "done"
    /\ ctx.tree = <<QualifiedRenameNode,
                    RenameNode(1, "[SP_RENAME]", OldTableToken,
                               Quoted(UserOrders))>>
    /\ ConfiguredFormat = SnakeFormat
    /\ ConfiguredMaxLength = 0
    /\ result.list = <<FormatFinding(UserOrders, 1)>>


\* The entry reports a violation of the rule of this invocation.
IsViolation(a) ==
    /\ a.Status = ConfiguredStatus
    /\ a.Code = NamingTableConventionMismatch
    /\ a.Title = ctx.rule.type

\* C26: in every list Check returns the Success Finding never stands with
\* a violation Finding: the list is exactly one Success Finding, or one or
\* more Findings that all carry the configured level as status, the
\* table-naming-mismatch code and the rule type as title.
C26_SuccessXorViolations ==
    (pc = "done" /\ ~result.err)
        => \/ result.list = <<SuccessAdvice>>
           \/ /\ Len(result.list) >= 1
              /\ \A i \in 1..Len(result.list) : IsViolation(result.list[i])

\* A list of several violations reported as warnings, from a table creation
\* and a rename.
C26_Witness ==
    /\ pc = "done"
    /\ ~result.err
    /\ ctx.rule.level = "WARNING"
    /\ Len(ctx.tree) = 2
    /\ ctx.tree[1].kind = "create_table"
    /\ ctx.tree[2].kind = "execute_body"
    /\ Len(result.list) = 2
    /\ \A i \in 1..2 : result.list[i].Status = Warn
    /\ ~InSeq(SuccessAdvice, result.list)


\* C27: Findings are returned in tree-walk order: a listener call keeps the
\* Findings of the nodes entered before and adds its own behind them, the
\* format Finding of a name ahead of its length Finding, each with the line
\* of the entered node's start token; Check returns them in that order.
C27_FindingsInWalkOrder ==
    [][/\ EnterStep
          => /\ KeepsEarlierAdvice
             /\ Len(Appended) <= 2
             /\ \A i \in 1..Len(Appended) :
                    Appended[i].Line = EnteredNode.line
             /\ Len(Appended) = 2
                  => /\ IsFormatAdvice(Appended[1])
                     /\ IsLengthAdvice(Appended[2])
       /\ (ReturnStep /\ ~result'.err /\ listener.adviceList # <<>>)
          => result'.list = listener.adviceList]_vars

\* A table creation on line 1 and a rename on line 2, both names breaking
\* both checks: four Findings, node by node, format ahead of length.
C27_Witness ==
    /\ pc = "done"
    /\ ctx.tree = <<CreateTableNode(UserOrders, 1),
                    RenameNode(2, "sp_rename", OldTableToken,
                               Quoted(NewTable))>>
    /\ result.list = <<FormatFinding(UserOrders, 1),
                       LengthFinding(UserOrders, 1),
                       FormatFinding(NewTable, 2),
                       LengthFinding(NewTable, 2)>>


(***************************************************************************)
(* Rule configuration schema (frontend/src/types/sqlReview.ts).            *)
(*                                                                         *)
(* A JavaScript value is a record that carries its type; an absent         *)
(* property and the value undefined are the same.                          *)
(***************************************************************************)
Undefined == [t |-> "undefined", n |-> 0, s |-> "", b |-> FALSE, l |-> <<>>]
Num(n)    == [t |-> "number",    n |-> n, s |-> "", b |-> FALSE, l |-> <<>>]
Str(x)    == [t |-> "string",    n |-> 0, s |-> x,  b |-> FALSE, l |-> <<>>]
Bool(b)   == [t |-> "boolean",   n |-> 0, s |-> "", b |-> b,     l |-> <<>>]
Arr(l)    == [t |-> "array",     n |-> 0, s |-> "", b |-> FALSE, l |-> l]

\* a ?? b
Coalesce(a, b) == IF a.t = "undefined" THEN b ELSE a

\* !v
Falsy(v) ==
    \/ v.t = "undefined"
    \/ v.t = "number" /\ v.n = 0
    \/ v.t = "string" /\ v.s = ""
    \/ v.t = "boolean" /\ ~v.b

\* The stored payload: the fields of all payload variants, and the
\* deprecated columnList.
EmptyPayload ==
    [format |-> Undefined, maxLength |-> Undefined, list |-> Undefined,
     required |-> Undefined, number |-> Undefined, string |-> Undefined,
     upper |-> Undefined, columnList |-> Undefined]

\* SchemaPolicyRule; hasPayload is whether the payload property is there.
PolicyRule(type, level, engine, comment, hasPayload, payload) ==
    [type |-> type, level |-> level, engine |-> engine, comment |-> comment,
     hasPayload |-> hasPayload, payload |-> payload]

\* RuleConfigComponent: key and the typed payload {type, default, value?}.
Component(key, kind, default, value) ==
    [key |-> key,
     payload |-> [type |-> kind, default |-> default, value |-> value]]

\* RuleTemplateV2
RuleTemplate(type, category, engine, level, componentList, comment) ==
    [type |-> type, category |-> category, engine |-> engine,
     level |-> level, componentList |-> componentList, comment |-> comment]

\* componentList.find((c) => c.payload.type === kind)
RECURSIVE FindIndex(_, _, _)
FindIndex(componentList, kind, i) ==
    IF i > Len(componentList) THEN 0
    ELSE IF componentList[i].payload.type = kind THEN i
    ELSE FindIndex(componentList, kind, i + 1)

HasKind(componentList, kind) == FindIndex(componentList, kind, 1) # 0
Find(componentList, kind) == componentList[FindIndex(componentList, kind, 1)]

\* { ...component, payload: { ...component.payload, value } }
WithValue(component, value) == [component EXCEPT !.payload.value = value]

\* The case labels of the switch of convertPolicyRuleToRuleTemplate.
FwdStringValueTypes   == {"statement.query.minimum-plan-level"}
FwdStringFormatTypes  == {"table.drop-naming-convention"}
FwdStringNumberTypes  ==
    {"naming.column", "naming.column.auto-increment", "naming.table"}
FwdTemplateTypes      == {"naming.index.pk"}
FwdTemplateNumberTypes ==
    {"naming.index.idx", "naming.index.uk", "naming.index.fk"}
FwdBooleanTypes       == {"naming.identifier.case"}
FwdColumnRequiredTypes == {"column.required"}
FwdStringArrayTypes   ==
    {"column.type-disallow-list", "index.primary-key-type-allowlist",
     "index.type-allow-list", "system.charset.allowlist",
     "system.collation.allowlist", "system.function.disallowed-list",
     "table.disallow-dml", "table.disallow-ddl"}
FwdBooleanNumberTypes == {"column.comment", "table.comment"}
FwdNumberTypes        ==
    {"statement.insert.row-limit", "statement.affected-row-limit",
     "column.maximum-character-length", "column.maximum-varchar-length",
     "column.auto-increment-initial-value", "index.key-number-limit",
     "index.total-number-limit", "system.comment.length",
     "advice.online-migration", "table.text-fields-total-length",
     "table.limit-size", "statement.where.maximum-logical-operator-count",
     "statement.maximum-limit-value", "statement.maximum-join-table-count",
     "statement.maximum-statements-in-transaction"}

Thrown(dummy) == [ok |-> FALSE, val |-> dummy]
Returned(val) == [ok |-> TRUE, val |-> val]

NoTemplate == RuleTemplate("", "", "", "", <<>>, Undefined)
NoRule     == PolicyRule("", "", "", Undefined, FALSE, EmptyPayload)


\* The throw after the switch falling back to the untouched template.
FwdUnhandledFallsBack(res) == Returned(res)

\* throw new Error(`Invalid rule ...`) after the switch (sqlReview.ts:527)
FwdUnhandled(res) == Thrown(NoTemplate)

\* The guard comparing the template's type with itself.
TypesDifferSelfCompared(pr, rt) == rt.type # rt.type

\* policyRule.type !== ruleTemplate.type (sqlReview.ts:261)
TypesDiffer(pr, rt) == pr.type # rt.type

\* convertPolicyRuleToRuleTemplate (sqlReview.ts:257-528)
ConvertPolicyRuleToRuleTemplate(pr, rt) ==
    IF TypesDiffer(pr, rt) THEN Thrown(NoTemplate)
    ELSE
    LET res == [rt EXCEPT !.engine = pr.engine, !.level = pr.level,
                          !.comment = pr.comment]
        componentList == rt.componentList
        payload == IF pr.hasPayload THEN pr.payload ELSE EmptyPayload
        Out(cl) == Returned([res EXCEPT !.componentList = cl])
    IN
    IF Len(componentList) = 0 THEN Returned(res)
    ELSE
    CASE rt.type \in FwdStringValueTypes ->
           IF ~HasKind(componentList, "STRING") THEN Thrown(NoTemplate)
           ELSE Out(<<WithValue(Find(componentList, "STRING"),
                                payload.string)>>)
      [] rt.type \in FwdStringFormatTypes ->
           IF ~HasKind(componentList, "STRING") THEN Thrown(NoTemplate)
           ELSE Out(<<WithValue(Find(componentList, "STRING"),
                                payload.format)>>)
      [] rt.type \in FwdStringNumberTypes ->
           IF ~HasKind(componentList, "STRING")
              \/ ~HasKind(componentList, "NUMBER")
           THEN Thrown(NoTemplate)
           ELSE Out(<<WithValue(Find(componentList, "STRING"),
                                payload.format),
                      WithValue(Find(componentList, "NUMBER"),
                                payload.maxLength)>>)
      [] rt.type \in FwdTemplateTypes ->
           IF ~HasKind(componentList, "TEMPLATE") THEN Thrown(NoTemplate)
           ELSE Out(<<WithValue(Find(componentList, "TEMPLATE"),
                                payload.format)>>)
      [] rt.type \in FwdTemplateNumberTypes ->
           IF ~HasKind(componentList, "TEMPLATE")
              \/ ~HasKind(componentList, "NUMBER")
           THEN Thrown(NoTemplate)
           ELSE Out(<<WithValue(Find(componentList, "TEMPLATE"),
                                payload.format),
                      WithValue(Find(componentList, "NUMBER"),
                                payload.maxLength)>>)
      [] rt.type \in FwdBooleanTypes ->
           \* payload: booleanComponent.payload, as it is
           IF ~HasKind(componentList, "BOOLEAN") THEN Thrown(NoTemplate)
           ELSE Out(<<Find(componentList, "BOOLEAN")>>)
      [] rt.type \in FwdColumnRequiredTypes ->
           \* componentList[0], whatever its kind
           LET value == IF Falsy(payload.columnList) THEN payload.list
                        ELSE payload.columnList
           IN  Out(<<WithValue(componentList[1], value)>>)
      [] rt.type \in FwdStringArrayTypes ->
           IF ~HasKind(componentList, "STRING_ARRAY") THEN Thrown(NoTemplate)
           ELSE Out(<<WithValue(Find(componentList, "STRING_ARRAY"),
                                payload.list)>>)
      [] rt.type \in FwdBooleanNumberTypes ->
           IF ~HasKind(componentList, "BOOLEAN")
              \/ ~HasKind(componentList, "NUMBER")
           THEN Thrown(NoTemplate)
           ELSE Out(<<WithValue(Find(componentList, "BOOLEAN"),
                                payload.required),
                      WithValue(Find(componentList, "NUMBER"),
                                payload.maxLength)>>)
      [] rt.type \in FwdNumberTypes ->
           IF ~HasKind(componentList, "NUMBER") THEN Thrown(NoTemplate)
           ELSE Out(<<WithValue(Find(componentList, "NUMBER"),
                                payload.number)>>)
      [] OTHER -> FwdUnhandled(res)

\* The case labels of the switch of mergeIndividualConfigAsRule.
BwdStringValueTypes   == {"statement.query.minimum-plan-level"}
BwdStringFormatTypes  == {"table.drop-naming-convention"}
BwdStringNumberTypes  ==
    {"naming.column", "naming.column.auto-increment", "naming.table"}
BwdTemplateTypes      == {"naming.index.pk"}
BwdTemplateNumberTypes ==
    {"naming.index.idx", "naming.index.uk", "naming.index.fk"}
BwdBooleanTypes       == {"naming.identifier.case"}
BwdStringArrayTypes   ==
    {"column.required", "column.type-disallow-list",
     "index.primary-key-type-allowlist", "index.type-allow-list",
     "system.charset.allowlist", "system.collation.allowlist",
     "system.function.disallowed-list", "table.disallow-dml",
     "table.disallow-ddl"}
BwdBooleanNumberTypes == {"column.comment", "table.comment"}
BwdNumberTypes        ==
    {"statement.insert.row-limit", "statement.affected-row-limit",
     "column.maximum-character-length", "column.maximum-varchar-length",
     "column.auto-increment-initial-value", "index.key-number-limit",
     "index.total-number-limit", "system.comment.length",
     "advice.online-migration", "table.text-fields-total-length",
     "table.limit-size", "statement.where.maximum-logical-operator-count",
     "statement.maximum-limit-value", "statement.maximum-join-table-count",
     "statement.maximum-statements-in-transaction"}

\* payload.value || payload.default
ValueOrDefaultTruthy(componentList, kind) ==
    IF Falsy(Find(componentList, kind).payload.value)
    THEN Find(componentList, kind).payload.default
    ELSE Find(componentList, kind).payload.value

\* payload.value ?? payload.default of the first component of the kind
ValueOrDefault(componentList, kind) ==
    Coalesce(Find(componentList, kind).payload.value,
             Find(componentList, kind).payload.default)

\* mergeIndividualConfigAsRule (sqlReview.ts:530-684)
MergeIndividualConfigAsRule(base, template) ==
    LET componentList == template.componentList
        Out(payload) ==
            Returned([base EXCEPT !.hasPayload = TRUE, !.payload = payload])
    IN
    CASE template.type \in BwdStringValueTypes ->
           IF ~HasKind(componentList, "STRING") THEN Thrown(NoRule)
           ELSE Out([EmptyPayload EXCEPT
                       !.string = ValueOrDefault(componentList, "STRING")])
      [] template.type \in BwdStringFormatTypes ->
           IF ~HasKind(componentList, "STRING") THEN Thrown(NoRule)
           ELSE Out([EmptyPayload EXCEPT
                       !.format = ValueOrDefault(componentList, "STRING")])
      [] template.type \in BwdStringNumberTypes ->
           IF ~HasKind(componentList, "STRING")
              \/ ~HasKind(componentList, "NUMBER")
           THEN Thrown(NoRule)
           ELSE Out([EmptyPayload EXCEPT
                       !.format = ValueOrDefault(componentList, "STRING"),
                       !.maxLength = ValueOrDefault(componentList, "NUMBER")])
      [] template.type \in BwdTemplateTypes ->
           IF ~HasKind(componentList, "TEMPLATE") THEN Thrown(NoRule)
           ELSE Out([EmptyPayload EXCEPT
                       !.format = ValueOrDefault(componentList, "TEMPLATE")])
      [] template.type \in BwdTemplateNumberTypes ->
           IF ~HasKind(componentList, "TEMPLATE")
              \/ ~HasKind(componentList, "NUMBER")
           THEN Thrown(NoRule)
           ELSE Out([EmptyPayload EXCEPT
                       !.format = ValueOrDefault(componentList, "TEMPLATE"),
                       !.maxLength = ValueOrDefault(componentList, "NUMBER")])
      [] template.type \in BwdBooleanTypes ->
           IF ~HasKind(componentList, "BOOLEAN") THEN Thrown(NoRule)
           ELSE Out([EmptyPayload EXCEPT
                       !.upper = ValueOrDefault(componentList, "BOOLEAN")])
      [] template.type \in BwdStringArrayTypes ->
           IF ~HasKind(componentList, "STRING_ARRAY") THEN Thrown(NoRule)
           ELSE Out([EmptyPayload EXCEPT
                       !.list = ValueOrDefault(componentList, "STRING_ARRAY")])
      [] template.type \in BwdBooleanNumberTypes ->
           IF ~HasKind(componentList, "BOOLEAN")
              \/ ~HasKind(componentList, "NUMBER")
           THEN Thrown(NoRule)
           ELSE Out([EmptyPayload EXCEPT
                       !.required = ValueOrDefault(componentList, "BOOLEAN"),
                       !.maxLength = ValueOrDefault(componentList, "NUMBER")])
      [] template.type \in BwdNumberTypes ->
           IF ~HasKind(componentList, "NUMBER") THEN Thrown(NoRule)
           ELSE Out([EmptyPayload EXCEPT
                       !.number = ValueOrDefault(componentList, "NUMBER")])
      [] OTHER -> Thrown(NoRule)

\* convertRuleTemplateToPolicyRule (sqlReview.ts:688-702)
ConvertRuleTemplateToPolicyRule(rule) ==
    LET base == PolicyRule(rule.type, rule.level, rule.engine,
                           Coalesce(rule.comment, Str("")),
                           FALSE, EmptyPayload)
    IN  IF Len(rule.componentList) = 0 THEN Returned(base)
        ELSE MergeIndividualConfigAsRule(base, rule)


(***************************************************************************)
(* The inputs of the conversions.                                          *)
(***************************************************************************)
\* A catalog rule type without parameters, and a type the schema lacks.
NoPayloadType == "statement.select.no-select-all"
UnknownType   == "custom.unknown-rule"

FwdTypes ==
    FwdStringValueTypes \cup FwdStringFormatTypes \cup FwdStringNumberTypes
    \cup FwdTemplateTypes \cup FwdTemplateNumberTypes \cup FwdBooleanTypes
    \cup FwdColumnRequiredTypes \cup FwdStringArrayTypes
    \cup FwdBooleanNumberTypes \cup FwdNumberTypes

BwdTypes ==
    BwdStringValueTypes \cup BwdStringFormatTypes \cup BwdStringNumberTypes
    \cup BwdTemplateTypes \cup BwdTemplateNumberTypes \cup BwdBooleanTypes
    \cup BwdStringArrayTypes \cup BwdBooleanNumberTypes \cup BwdNumberTypes

RuleTypes == FwdTypes \cup BwdTypes \cup {NoPayloadType, UnknownType}

Kinds == {"STRING", "NUMBER", "BOOLEAN", "TEMPLATE", "STRING_ARRAY"}

\* The component kinds of a rule type's template in the schema catalog,
\* in the order of the catalog (spec.md 4.4: the required-components set).
CatalogKinds(type) ==
    CASE type \in {"statement.query.minimum-plan-level",
                   "table.drop-naming-convention"} -> <<"STRING">>
      [] type \in {"naming.column", "naming.column.auto-increment",
                   "naming.table"} -> <<"STRING", "NUMBER">>
      [] type = "naming.index.pk" -> <<"TEMPLATE">>
      [] type \in {"naming.index.idx", "naming.index.uk",
                   "naming.index.fk"} -> <<"TEMPLATE", "NUMBER">>
      [] type = "naming.identifier.case" -> <<"BOOLEAN">>
      [] type \in FwdStringArrayTypes \cup {"column.required"}
           -> <<"STRING_ARRAY">>
      [] type \in {"column.comment", "table.comment"}
           -> <<"BOOLEAN", "NUMBER">>
      [] type \in FwdNumberTypes -> <<"NUMBER">>
      [] OTHER -> <<>>

\* The fields of the stored payload variant of a rule type (spec.md 3).
PayloadFields(type) ==
    CASE type = "statement.query.minimum-plan-level" -> {"string"}
      [] type \in {"table.drop-naming-convention", "naming.index.pk"}
           -> {"format"}
      [] type \in {"naming.column", "naming.column.auto-increment",
                   "naming.table", "naming.index.idx", "naming.index.uk",
                   "naming.index.fk"} -> {"format", "maxLength"}
      [] type = "naming.identifier.case" -> {"upper"}
      [] type \in FwdStringArrayTypes \cup {"column.required"} -> {"list"}
      [] type \in {"column.comment", "table.comment"}
           -> {"required", "maxLength"}
      [] type \in FwdNumberTypes -> {"number"}
      [] OTHER -> {}

\* Stored payloads of a rule type: instances of its variant, with optional
\* fields present or not, and, for column.required, the deprecated form.
PayloadsOf(type) ==
    LET P == PayloadFields(type) IN
    IF P = {"string"} THEN
        {[EmptyPayload EXCEPT !.string = Str(x)] : x \in {"", "TEAM"}}
    ELSE IF P = {"format"} THEN
        {[EmptyPayload EXCEPT !.format = Str("^t_")]}
    ELSE IF P = {"format", "maxLength"} THEN
        {[EmptyPayload EXCEPT !.format = Str("^t_")]}
        \cup {[EmptyPayload EXCEPT !.format = Str("^t_"),
                                   !.maxLength = Num(n)] : n \in {0, 5}}
    ELSE IF P = {"upper"} THEN
        {[EmptyPayload EXCEPT !.upper = Bool(b)] : b \in BOOLEAN}
    ELSE IF P = {"list"} THEN
        {[EmptyPayload EXCEPT !.list = Arr(l)] : l \in {<<>>, <<"x">>}}
        \cup (IF type = "column.required"
              THEN {[EmptyPayload EXCEPT !.columnList = Arr(<<"id">>)]}
              ELSE {})
    ELSE IF P = {"required", "maxLength"} THEN
        {[EmptyPayload EXCEPT !.required = Bool(TRUE), !.maxLength = Num(0)],
         [EmptyPayload EXCEPT !.required = Bool(FALSE), !.maxLength = Num(5)]}
    ELSE IF P = {"number"} THEN
        {[EmptyPayload EXCEPT !.number = Num(n)] : n \in {0, 5}}
    ELSE {[EmptyPayload EXCEPT !.number = Num(5)]}

PolicyRules ==
    UNION {
      {PolicyRule(ty, lv, "MSSQL", Str("why"), TRUE, p) :
          lv \in {"ERROR", "WARNING"}, p \in PayloadsOf(ty)}
      \cup {PolicyRule(ty, "ERROR", "MSSQL", Str("why"), FALSE, EmptyPayload)}
      : ty \in RuleTypes}

\* The components of the schema: one per kind, with its default and no
\* current value.
SchemaComponent(kind) ==
    CASE kind = "STRING" -> Component("format", kind, Str("^[a-z]+$"), Undefined)
      [] kind = "NUMBER" -> Component("maxLength", kind, Num(64), Undefined)
      [] kind = "BOOLEAN" -> Component("required", kind, Bool(FALSE), Undefined)
      [] kind = "TEMPLATE" ->
           Component("format", kind, Str("^idx_{{table}}$"), Undefined)
      [] kind = "STRING_ARRAY" ->
           Component("list", kind, Arr(<<"id">>), Undefined)

ComponentLists ==
    UNION {[1..n -> {SchemaComponent(k) : k \in Kinds}] : n \in 0..MaxComponents}

\* The catalog template of a rule type.
CatalogComponentList(type) ==
    [i \in 1..Len(CatalogKinds(type)) |-> SchemaComponent(CatalogKinds(type)[i])]

\* The values a user sets on a component of a kind, the falsy ones among
\* them.
SetValues(kind) ==
    CASE kind \in {"STRING", "TEMPLATE"} -> {Str(""), Str("^t_")}
      [] kind = "NUMBER" -> {Num(0), Num(5)}
      [] kind = "BOOLEAN" -> {Bool(FALSE), Bool(TRUE)}
      [] kind = "STRING_ARRAY" -> {Arr(<<>>), Arr(<<"x">>)}

\* The components of a kind as the editor holds them: the schema's, with
\* no value or with a value set; the BOOLEAN one also with default true.
EditedComponents(kind) ==
    {SchemaComponent(kind)}
    \cup {WithValue(SchemaComponent(kind), v) : v \in SetValues(kind)}
    \cup (IF kind = "BOOLEAN"
          THEN {Component("required", kind, Bool(TRUE), v) :
                  v \in SetValues(kind) \cup {Undefined}}
          ELSE {})

\* The catalog template of a rule type with its components edited.
EditedComponentLists(type) ==
    {cl \in [1..Len(CatalogKinds(type)) ->
               UNION {EditedComponents(k) : k \in Kinds}] :
        \A i \in 1..Len(cl) : cl[i] \in EditedComponents(CatalogKinds(type)[i])}

\* Templates handed to the conversions: of the rule's type or of another,
\* with any component list.
TemplatesFor(type) ==
    {RuleTemplate(ty, "NAMING", "MYSQL", "DISABLED", cl, Undefined) :
        ty \in {type, IF type = "naming.table" THEN "table.comment"
                      ELSE "naming.table"},
        cl \in ComponentLists \cup {CatalogComponentList(type)}}
    \cup {RuleTemplate(type, "NAMING", "MYSQL", "DISABLED", cl, Undefined) :
            cl \in EditedComponentLists(type)}

NoTemplateResult == Thrown(NoTemplate)
NoRuleResult == Thrown(NoRule)

(***************************************************************************)
(* The conversions, applied to the inputs.                                 *)
(***************************************************************************)
InitConv ==
    /\ AdvisorIdle
    /\ AgainIdle
    /\ ParIdle
    /\ RegIdle
    /\ CatIdle
    /\ PlanIdle
    /\ cpc = "input"
    /\ policyRule \in PolicyRules
    /\ ruleTemplate \in TemplatesFor(policyRule.type)
    /\ tmplResult = NoTemplateResult
    /\ ruleResult = NoRuleResult

\* convertPolicyRuleToRuleTemplate(policyRule, ruleTemplate)
ToTemplate ==
    /\ cpc = "input"
    /\ tmplResult' = ConvertPolicyRuleToRuleTemplate(policyRule, ruleTemplate)
    /\ cpc' = "templated"
    /\ UNCHANGED <<policyRule, ruleTemplate, ruleResult, advisorVars,
                 againVars, parVars, regVars,
                 catVars, planVars>>

\* convertRuleTemplateToPolicyRule applied to the template just produced
BackToRule ==
    /\ cpc = "templated"
    /\ tmplResult.ok
    /\ ruleResult' = ConvertRuleTemplateToPolicyRule(tmplResult.val)
    /\ cpc' = "roundtrip"
    /\ UNCHANGED <<policyRule, ruleTemplate, tmplResult, advisorVars,
                 againVars, parVars, regVars,
                 catVars, planVars>>

\* convertRuleTemplateToPolicyRule(ruleTemplate)
ToRule ==
    /\ cpc = "input"
    /\ ruleResult' = ConvertRuleTemplateToPolicyRule(ruleTemplate)
    /\ cpc' = "ruled"
    /\ UNCHANGED <<policyRule, ruleTemplate, tmplResult, advisorVars,
                 againVars, parVars, regVars,
                 catVars, planVars>>

NextConv ==
    \/ ToTemplate
    \/ BackToRule
    \/ ToRule

SpecConv == InitConv /\ [][NextConv]_vars


(***************************************************************************)
(* The rule template catalog (sqlReview.ts:157-253): the schema overlaid   *)
(* with the presets at start-up, and the calls made on it afterwards.      *)
(***************************************************************************)
MaxPresetRules == 3

Engines == {"MYSQL", "MSSQL", "POSTGRES"}
Levels == {"ERROR", "WARNING", "DISABLED"}

\* engineFromJSON: the engine the JSON value names
EngineFromJSON(x) == IF x \in Engines THEN x ELSE "UNRECOGNIZED"

\* sQLReviewRuleLevelFromJSON: the level the JSON value names
SQLReviewRuleLevelFromJSON(x) == IF x \in Levels THEN x ELSE "UNRECOGNIZED"

\* obj[key], undefined when the object lacks the key
Prop(obj, key) == IF key \in DOMAIN obj THEN obj[key] ELSE Undefined

\* sql-review-schema: the rule types with their components, per engine.
sqlReviewSchema ==
    <<RuleTemplate("naming.table", "NAMING", "MYSQL", "DISABLED",
                   CatalogComponentList("naming.table"), Undefined),
      RuleTemplate("column.comment", "COLUMN", "MYSQL", "DISABLED",
                   <<Component("required", "BOOLEAN", Bool(TRUE), Undefined),
                     SchemaComponent("NUMBER")>>, Undefined),
      RuleTemplate("naming.table", "NAMING", "MSSQL", "DISABLED",
                   CatalogComponentList("naming.table"), Undefined),
      RuleTemplate(NoPayloadType, "STATEMENT", "MYSQL", "DISABLED",
                   <<>>, Undefined)>>

\* ruleTemplateMapV2.get(type)?.get(engine): the index of the schema entry
\* the map holds for the key, the last one set, or 0 (sqlReview.ts:157-171)
RuleTemplateMapV2(type, engine) ==
    LET hits == {i \in 1..Len(sqlReviewSchema) :
                    /\ sqlReviewSchema[i].type = type
                    /\ EngineFromJSON(sqlReviewSchema[i].engine) = engine}
    IN  IF hits = {} THEN 0
        ELSE CHOOSE i \in hits : \A k \in hits : k <= i

\* An entry of a preset's ruleList: {type, level, payload?, engine}
PresetRule(type, engine, level, hasPayload, payload) ==
    [type |-> type, engine |-> engine, level |-> level,
     hasPayload |-> hasPayload, payload |-> payload]

\* The component of the template, with the preset's value as its default
\* (sqlReview.ts:209-219)
OverlayDefault(rule, component) ==
    IF rule.hasPayload /\ ~Falsy(Prop(rule.payload, component.key))
    THEN [component EXCEPT
            !.payload.default = Prop(rule.payload, component.key)]
    ELSE component

\* One iteration of the loop over template.ruleList: nothing pushed when
\* the schema has no template of the type for the engine, otherwise the
\* schema's template with the preset's level and values (sqlReview.ts:195-222)
PresetTemplate(rule) ==
    LET i == RuleTemplateMapV2(rule.type, EngineFromJSON(rule.engine)) IN
    IF i = 0 THEN <<>>
    ELSE LET rt == sqlReviewSchema[i] IN
         <<[rt EXCEPT
              !.engine = EngineFromJSON(rt.engine),
              !.level = SQLReviewRuleLevelFromJSON(rule.level),
              !.componentList =
                  [j \in 1..Len(rt.componentList) |->
                      OverlayDefault(rule, rt.componentList[j])]]>>

RECURSIVE PresetRuleList(_)
PresetRuleList(rules) ==
    IF rules = <<>> THEN <<>>
    ELSE PresetTemplate(Head(rules)) \o PresetRuleList(Tail(rules))

\* templateList.map(...) (sqlReview.ts:192-226)
BuildTemplateListV2(tl) ==
    [i \in 1..Len(tl) |->
        [id |-> tl[i].id, ruleList |-> PresetRuleList(tl[i].ruleList)]]

\* The reducer of convertToCategoryList with every rule opening a category
\* of its own.
AddToDictAlwaysNew(dict, rule) ==
    Append(dict, [id |-> rule.category, ruleList |-> <<rule>>])

\* The reducer of convertToCategoryList: the dictionary is the sequence of
\* its values in insertion order, which is the order Object.values gives
\* for category names (sqlReview.ts:238-250)
AddToDict(dict, rule) ==
    IF \E i \in 1..Len(dict) : dict[i].id = rule.category
    THEN LET i == CHOOSE k \in 1..Len(dict) : dict[k].id = rule.category
         IN  [dict EXCEPT ![i].ruleList = Append(@, rule)]
    ELSE Append(dict, [id |-> rule.category, ruleList |-> <<rule>>])

RECURSIVE ReduceToDict(_, _)
ReduceToDict(dict, ruleList) ==
    IF ruleList = <<>> THEN dict
    ELSE ReduceToDict(AddToDict(dict, Head(ruleList)), Tail(ruleList))

\* convertToCategoryList (sqlReview.ts:234-253)
ConvertToCategoryList(ruleList) == ReduceToDict(<<>>, ruleList)

\* convertPolicyRuleToRuleTemplate writing the rule's level, engine and
\* comment into the template handed in.
ForwardAssigns(pr, rt) ==
    [policyRule |-> pr,
     ruleTemplate |-> [rt EXCEPT !.engine = pr.engine, !.level = pr.level,
                                 !.comment = pr.comment]]

\* What convertPolicyRuleToRuleTemplate leaves in its arguments: res and
\* the components of the result are new objects made by spreading, the
\* arguments are only read (sqlReview.ts:267-295)
ForwardLeaves(pr, rt) == [policyRule |-> pr, ruleTemplate |-> rt]

\* What convertRuleTemplateToPolicyRule leaves in its argument: base is a
\* new object, the template is only read (sqlReview.ts:688-702)
BackwardLeaves(rt) == rt

\* What convertToCategoryList leaves in its argument: rules are pushed to
\* the lists of the new dictionary only (sqlReview.ts:238-250)
CategoriseLeaves(ruleList) == ruleList

\* Entries of the presets: values that are truthy and values that are not,
\* and an engine the schema lacks for the type; the prod preset holds an
\* engine name that is none.
PresetRules ==
    {PresetRule("naming.table", "MYSQL", "WARNING", TRUE,
        [EmptyPayload EXCEPT !.format = Str("^t_"), !.maxLength = Num(5)]),
     PresetRule("naming.table", "MYSQL", "ERROR", TRUE,
        [EmptyPayload EXCEPT !.format = Str("^t_"), !.maxLength = Num(0)]),
     PresetRule("naming.table", "MSSQL", "WARNING", FALSE, EmptyPayload),
     PresetRule("column.comment", "MYSQL", "ERROR", TRUE,
        [EmptyPayload EXCEPT !.required = Bool(FALSE), !.maxLength = Num(5)]),
     PresetRule("column.comment", "POSTGRES", "ERROR", TRUE,
        [EmptyPayload EXCEPT !.required = Bool(TRUE)]),
     PresetRule(NoPayloadType, "MYSQL", "ERROR", FALSE, EmptyPayload)}

PresetRuleLists ==
    UNION {[1..n -> PresetRules] : n \in 0..MaxPresetRules}

DevRuleList ==
    <<PresetRule("naming.table", "MYSQL", "WARNING", TRUE,
         [EmptyPayload EXCEPT !.format = Str("")]),
      PresetRule(NoPayloadType, "MYSQL", "WARNING", FALSE, EmptyPayload)>>

ProdRuleList ==
    <<PresetRule("column.comment", "MYSQL", "ERROR", TRUE,
         [EmptyPayload EXCEPT !.required = Bool(TRUE)]),
      PresetRule("naming.table", "mysql", "ERROR", FALSE, EmptyPayload)>>

\* The three presets; the sample one varies.
TemplateLists ==
    {<<[id |-> "bb.sql-review.sample", ruleList |-> rl],
       [id |-> "bb.sql-review.dev", ruleList |-> DevRuleList],
       [id |-> "bb.sql-review.prod", ruleList |-> ProdRuleList]>> :
        rl \in PresetRuleLists}

\* The stored rules converted against a catalog template of a type.
CatalogPolicyRules(type) ==
    {pr \in PolicyRules :
        /\ pr.type = type
        /\ pr.level = "WARNING" \/ ~pr.hasPayload}

NoCall == [fn |-> "", preset |-> 0, rule |-> 0, val |-> <<>>]
NoArgument == [before |-> <<>>, after |-> <<>>]

InitCatalog ==
    /\ AdvisorIdle
    /\ ConvIdle
    /\ AgainIdle
    /\ ParIdle
    /\ RegIdle
    /\ PlanIdle
    /\ kpc = "start"
    /\ templateList \in TemplateLists
    /\ TEMPLATE_LIST_V2 = <<>>
    /\ passed = NoArgument
    /\ returned = NoCall

\* The module is loaded: TEMPLATE_LIST_V2 is computed, once.
BuildCatalog ==
    /\ kpc = "start"
    /\ TEMPLATE_LIST_V2' = BuildTemplateListV2(templateList)
    /\ kpc' = "built"
    /\ UNCHANGED <<templateList, passed, returned, advisorVars, convVars,
                 againVars, parVars, regVars, planVars>>

\* convertToCategoryList(template.ruleList) on a preset of the catalog
CatalogToCategoryList ==
    /\ kpc = "built"
    /\ \E i \in 1..Len(TEMPLATE_LIST_V2) :
        LET ruleList == TEMPLATE_LIST_V2[i].ruleList IN
        /\ returned' = [fn |-> "convertToCategoryList", preset |-> i,
                        rule |-> 0, val |-> ConvertToCategoryList(ruleList)]
        /\ passed' = [before |-> ruleList,
                      after |-> CategoriseLeaves(ruleList)]
        /\ TEMPLATE_LIST_V2' =
              [TEMPLATE_LIST_V2 EXCEPT ![i].ruleList = passed'.after]
    /\ UNCHANGED <<kpc, templateList, advisorVars, convVars,
                 againVars, parVars, regVars, planVars>>

\* convertPolicyRuleToRuleTemplate(rule, template) on a catalog template
CatalogToTemplate ==
    /\ kpc = "built"
    /\ \E i \in 1..Len(TEMPLATE_LIST_V2) :
        \E j \in 1..Len(TEMPLATE_LIST_V2[i].ruleList) :
        LET rt == TEMPLATE_LIST_V2[i].ruleList[j] IN
        \E pr \in CatalogPolicyRules(rt.type) :
        /\ returned' = [fn |-> "convertPolicyRuleToRuleTemplate",
                        preset |-> i, rule |-> j,
                        val |-> ConvertPolicyRuleToRuleTemplate(pr, rt)]
        /\ passed' = [before |-> pr,
                      after |-> ForwardLeaves(pr, rt).policyRule]
        /\ TEMPLATE_LIST_V2' =
              [TEMPLATE_LIST_V2 EXCEPT
                  ![i].ruleList[j] = ForwardLeaves(pr, rt).ruleTemplate]
    /\ UNCHANGED <<kpc, templateList, advisorVars, convVars,
                 againVars, parVars, regVars, planVars>>

\* convertRuleTemplateToPolicyRule(template) on a catalog template
CatalogToRule ==
    /\ kpc = "built"
    /\ \E i \in 1..Len(TEMPLATE_LIST_V2) :
        \E j \in 1..Len(TEMPLATE_LIST_V2[i].ruleList) :
        LET rt == TEMPLATE_LIST_V2[i].ruleList[j] IN
        /\ returned' = [fn |-> "convertRuleTemplateToPolicyRule",
                        preset |-> i, rule |-> j,
                        val |-> ConvertRuleTemplateToPolicyRule(rt)]
        /\ passed' = [before |-> rt, after |-> BackwardLeaves(rt)]
        /\ TEMPLATE_LIST_V2' =
              [TEMPLATE_LIST_V2 EXCEPT ![i].ruleList[j] = passed'.after]
    /\ UNCHANGED <<kpc, templateList, advisorVars, convVars,
                 againVars, parVars, regVars, planVars>>

NextCatalog ==
    \/ BuildCatalog
    \/ CatalogToCategoryList
    \/ CatalogToTemplate
    \/ CatalogToRule

SpecCatalog == InitCatalog /\ [][NextCatalog]_vars


(***************************************************************************)
(* The plan of a new issue (src/unnamed/part_001): buildPlan on its        *)
(* standard path, neither changelist nor database group, for a project     *)
(* without automatic backup and without a branch.                          *)
(***************************************************************************)
MaxDatabases == 2

ProjectName == "projects/shop"

\* nextUID: a fresh local UID, which starts with '-'
NextUID(counter) == <<"-", ToString(counter + 1)>>

\* `${project.name}/sheets/${uid}`
SheetName(uidOfSheet) == <<ProjectName, "/sheets/">> \o uidOfSheet

\* extractSheetUID
ExtractSheetUID(name) == SubSeq(name, 3, Len(name))

\* uid.startsWith("-")
StartsWithDash(uidOfSheet) == uidOfSheet # <<>> /\ uidOfSheet[1] = "-"

NoSheet == <<>>

\* Plan_Spec: the id, and the target, type and sheet of the config it holds
PlanSpec(id, target, type, sheet) ==
    [id |-> id, target |-> target, type |-> type, sheet |-> sheet]

\* sheetNameForSpec: the sheet of the spec's config, empty when it has none
SheetNameForSpec(spec) == spec.sheet

\* getLocalSheetByName: the sheet of the name, made empty if there is none
GetLocalSheetByName(store, name) ==
    IF name \in DOMAIN store THEN store
    ELSE [n \in DOMAIN store \cup {name} |->
            IF n = name THEN "" ELSE store[n]]

\* setSheetStatement on the local sheet of the name
SetSheetStatement(store, name, statement) ==
    [GetLocalSheetByName(store, name) EXCEPT ![name] = statement]

\* The remote sheets: getOrFetchSheetByUID finds the first, not the second.
RemoteUID == <<"1", "0", "1">>
MissingUID == <<"9", "9", "9">>
RemoteStatement == "ALTER TABLE t ADD c INT"
RemoteSheets == (SheetName(RemoteUID) :> RemoteStatement)

\* InitialSQL {sqlMap?, sql?}
InitialSQL(sql, hasSqlMap, sqlMap) ==
    [sql |-> sql, hasSqlMap |-> hasSqlMap, sqlMap |-> sqlMap]

\* hasInitialSQL (part_001:494-505)
HasInitialSQL(initialSQL) ==
    IF initialSQL.sql.t = "string" THEN TRUE
    ELSE IF initialSQL.hasSqlMap THEN TRUE
    ELSE FALSE

\* params.initialSQL.sqlMap?.[key]
SqlMapAt(initialSQL, key) ==
    IF initialSQL.hasSqlMap /\ key \in DOMAIN initialSQL.sqlMap
    THEN Str(initialSQL.sqlMap[key])
    ELSE Undefined

SchemaUpdate == "bb.issue.database.schema.update"
DataUpdate == "bb.issue.database.data.update"
SchemaBaseline == "bb.issue.database.schema.baseline"
DataExport == "bb.issue.database.data.export"

\* buildSpecForTarget (part_001:293-380): the spec, the UID counter and the
\* sheet store after the call
BuildSpecForTarget(target, p, sheetUID, counter, store, id) ==
    LET fresh == sheetUID = NoSheet
        sheet == SheetName(IF fresh THEN NextUID(counter) ELSE sheetUID)
        counterAfter == IF fresh THEN counter + 1 ELSE counter
        remote == IF p.sheetId # NoSheet /\ SheetName(p.sheetId) \in DOMAIN RemoteSheets
                  THEN SheetName(p.sheetId) ELSE NoSheet
        Out(spec, st) == [spec |-> spec, uid |-> counterAfter, sheets |-> st]
    IN  CASE p.template = DataUpdate ->
               Out(PlanSpec(id, target, "DATA",
                            IF remote # NoSheet THEN remote ELSE sheet), store)
          [] p.template = SchemaUpdate ->
               Out(PlanSpec(id, target,
                            IF p.ghost THEN "MIGRATE_GHOST" ELSE "MIGRATE",
                            sheet),
                   IF remote # NoSheet
                   THEN SetSheetStatement(store, sheet, store[remote])
                   ELSE store)
          [] p.template = SchemaBaseline ->
               Out(PlanSpec(id, target, "BASELINE", NoSheet), store)
          [] p.template = DataExport ->
               Out(PlanSpec(id, target, "EXPORT", sheet), store)
          [] OTHER -> Out(PlanSpec(id, target, "", NoSheet), store)

\* maybeSetInitialSQLForSpec with no test of the sheet being local.
MaybeSetInitialSQLAnySheet(spec, key, p, store) ==
    LET sheet == SheetNameForSpec(spec)
        sql == Coalesce(SqlMapAt(p.initialSQL, key),
                        Coalesce(p.initialSQL.sql, Str("")))
    IN  IF sheet = NoSheet THEN store
        ELSE IF ~Falsy(sql) THEN SetSheetStatement(store, sheet, sql.s)
        ELSE store

\* maybeSetInitialSQLForSpec (part_001:407-425): the sheet store after it
MaybeSetInitialSQLForSpec(spec, key, p, store) ==
    LET sheet == SheetNameForSpec(spec)
        sql == Coalesce(SqlMapAt(p.initialSQL, key),
                        Coalesce(p.initialSQL.sql, Str("")))
    IN  IF sheet = NoSheet THEN store
        ELSE IF ~StartsWithDash(ExtractSheetUID(sheet)) THEN store
        ELSE IF ~Falsy(sql) THEN SetSheetStatement(store, sheet, sql.s)
        ELSE store

\* The databases, and the order of the environment of each.
DatabaseNames == {"db_prod_a", "db_test", "db_prod_b"}
EnvironmentOrder(db) == IF db = "db_test" THEN 0 ELSE 1

\* groupBy effectiveEnvironment, orderBy environment order: the databases
\* of each stage, stages without database left out (part_001:173-191)
StageList(databaseNameList) ==
    LET InStage0(db) == EnvironmentOrder(db) = 0
        InStage1(db) == EnvironmentOrder(db) = 1
    IN  SelectSeq(<<SelectSeq(databaseNameList, InStage0),
                    SelectSeq(databaseNameList, InStage1)>>,
                  LAMBDA stage : stage # <<>>)

DatabaseNameLists ==
    {l \in UNION {[1..n -> DatabaseNames] : n \in 1..MaxDatabases} :
        \A i, j \in 1..Len(l) : i # j => l[i] # l[j]}

\* The initial SQL of the query: none, a statement, a statement per
\* database, or both.
InitialSQLs ==
    {InitialSQL(Undefined, FALSE, <<>>),
     InitialSQL(Str("SELECT 1"), FALSE, <<>>),
     InitialSQL(Str(""), FALSE, <<>>),
     InitialSQL(Undefined, TRUE, ("db_prod_a" :> "SELECT a")),
     InitialSQL(Undefined, TRUE,
                ("db_prod_a" :> "" @@ "db_test" :> "SELECT t")),
     InitialSQL(Str("SELECT 1"), TRUE, ("db_prod_a" :> "SELECT a")),
     InitialSQL(Str("SELECT 1"), TRUE, ("db_prod_a" :> ""))}

\* CreateIssueParams, of the query: template, ghost and sheetId
Params ==
    {[databaseNameList |-> l, template |-> t, ghost |-> g, sheetId |-> s,
      initialSQL |-> q] :
        l \in DatabaseNameLists,
        t \in {SchemaUpdate, DataUpdate, SchemaBaseline, DataExport},
        g \in BOOLEAN, s \in {NoSheet, RemoteUID, MissingUID},
        q \in InitialSQLs}

NoPlan == [name |-> <<>>, sheetUID |-> NoSheet, steps |-> <<>>, open |-> FALSE]

InitPlan ==
    /\ AdvisorIdle
    /\ ConvIdle
    /\ AgainIdle
    /\ ParIdle
    /\ RegIdle
    /\ CatIdle
    /\ ppc = "start"
    /\ params \in {p \in Params : p.ghost => p.template = SchemaUpdate}
    /\ uid = 0
    /\ sheets = RemoteSheets
    /\ plan = NoPlan
    /\ todo = <<>>

\* buildPlan up to the loop of buildSteps (part_001:140-191)
BuildPlan ==
    /\ ppc = "start"
    /\ LET shared == ~HasInitialSQL(params.initialSQL) IN
        /\ plan' = [name |-> <<ProjectName, "/plans/">> \o NextUID(uid),
                    sheetUID |-> IF shared THEN NextUID(uid + 1) ELSE NoSheet,
                    steps |-> <<>>, open |-> FALSE]
        /\ uid' = IF shared THEN uid + 2 ELSE uid + 1
    /\ todo' = StageList(params.databaseNameList)
    /\ ppc' = IF todo' = <<>> THEN "return" ELSE "spec"
    /\ UNCHANGED <<params, sheets, advisorVars, convVars, againVars,
                 parVars, regVars, catVars>>

\* The specs built so far, over all steps.
RECURSIVE Flatten(_)
Flatten(steps) ==
    IF steps = <<>> THEN <<>> ELSE Head(steps) \o Flatten(Tail(steps))

\* buildSteps: buildSpecForTarget and step.specs.push for the next
\* database (part_001:192-201)
BuildSpec ==
    /\ ppc = "spec"
    /\ LET db == Head(Head(todo))
           b == BuildSpecForTarget(db, params, plan.sheetUID, uid, sheets,
                                   Len(Flatten(plan.steps)) + 1)
       IN  /\ plan' = [plan EXCEPT
                  !.steps = IF plan.open
                            THEN [@ EXCEPT ![Len(@)] = Append(@, b.spec)]
                            ELSE Append(@, <<b.spec>>),
                  !.open = TRUE]
           /\ uid' = b.uid
           /\ sheets' = b.sheets
    /\ ppc' = "initial"
    /\ UNCHANGED <<params, todo, advisorVars, convVars, againVars,
                 parVars, regVars, catVars>>

\* buildSteps: maybeSetInitialSQLForSpec for the spec just pushed, and the
\* end of the iteration (part_001:202-206)
SetInitialSQL ==
    /\ ppc = "initial"
    /\ LET db == Head(Head(todo))
           specs == Flatten(plan.steps)
           rest == Tail(Head(todo))
       IN  /\ sheets' = MaybeSetInitialSQLForSpec(specs[Len(specs)], db,
                                                  params, sheets)
           /\ todo' = IF rest = <<>> THEN Tail(todo)
                      ELSE <<rest>> \o Tail(todo)
           /\ plan' = [plan EXCEPT !.open = rest # <<>>]
    /\ ppc' = IF todo' = <<>> THEN "return" ELSE "spec"
    /\ UNCHANGED <<params, uid, advisorVars, convVars, againVars,
                 parVars, regVars, catVars>>

\* return plan (part_001:165)
BuildPlanReturn ==
    /\ ppc = "return"
    /\ ppc' = "done"
    /\ UNCHANGED <<params, uid, sheets, plan, todo, advisorVars, convVars,
                 againVars, parVars, regVars, catVars>>

NextPlan ==
    \/ BuildPlan
    \/ BuildSpec
    \/ SetInitialSQL
    \/ BuildPlanReturn

SpecPlan == InitPlan /\ [][NextPlan]_vars


(***************************************************************************)
(* Statements about the conversions.                                       *)
(***************************************************************************)
PayloadFieldNames ==
    {"format", "maxLength", "list", "required", "number", "string", "upper",
     "columnList"}

\* The rule's payload is an instance of its type's payload variant: no
\* field of another variant; with every field of the variant when complete.
TypedPayload(pr) ==
    \A f \in PayloadFieldNames :
        pr.payload[f] # Undefined => (pr.hasPayload /\ f \in PayloadFields(pr.type))
CompletePayload(pr) ==
    /\ TypedPayload(pr)
    /\ \A f \in PayloadFields(pr.type) : pr.payload[f] # Undefined
    /\ pr.hasPayload <=> PayloadFields(pr.type) # {}

\* The template handed in is the catalog template of the rule's type.
CatalogTemplateGiven ==
    /\ ruleTemplate.type = policyRule.type
    /\ ruleTemplate.type # UnknownType
    /\ ruleTemplate.componentList = CatalogComponentList(policyRule.type)

\* C3: round trip.  For every rule type of the catalog, every stored rule
\* r of that type (its payload carrying the fields of the type's payload
\* variant) and the catalog template of the type, converting r to a
\* template succeeds and converting the result back yields r: same type,
\* level, engine, comment and payload.
C3_RoundTrip ==
    (CatalogTemplateGiven /\ CompletePayload(policyRule))
    => /\ cpc = "templated" => tmplResult.ok
       /\ cpc = "roundtrip" => ruleResult = Returned(policyRule)

RequiredKinds(type) == {CatalogKinds(type)[i] : i \in 1..Len(CatalogKinds(type))}

LacksRequiredKind(rt) ==
    \E k \in RequiredKinds(rt.type) : ~HasKind(rt.componentList, k)

\* C5: for every recognised rule type, both directions fail with an error
\* when the template lacks a component of a kind the rule type requires
\* (naming.table without NUMBER, column.required without STRING_ARRAY).
\* Stated for templates that hold at least one component.
C5_MissingComponentFails ==
    /\ (/\ cpc = "templated"
        /\ ruleTemplate.type = policyRule.type
        /\ ruleTemplate.componentList # <<>>
        /\ LacksRequiredKind(ruleTemplate))
         => ~tmplResult.ok
    /\ (/\ cpc = "ruled"
        /\ ruleTemplate.componentList # <<>>
        /\ LacksRequiredKind(ruleTemplate))
         => ~ruleResult.ok

\* The payload field that a component kind of a rule type takes its
\* current value from.
OverlayField(type, kind) ==
    CASE type = "statement.query.minimum-plan-level" -> "string"
      [] type = "naming.identifier.case" -> "upper"
      [] kind \in {"STRING", "TEMPLATE"} -> "format"
      [] kind = "STRING_ARRAY" -> "list"
      [] kind = "BOOLEAN" -> "required"
      [] kind = "NUMBER" /\ "maxLength" \in PayloadFields(type) -> "maxLength"
      [] OTHER -> "number"

\* C6: for every supported rule type, after convertPolicyRuleToRuleTemplate
\* on a rule and the catalog template of its type, the current value of
\* each required component is the corresponding field of rule.payload
\* (format, maxLength, list, required, number, string, upper).
C6_PayloadOverlaid ==
    (/\ cpc = "templated"
     /\ CatalogTemplateGiven
     /\ policyRule.type \in FwdTypes
     /\ TypedPayload(policyRule))
    => /\ tmplResult.ok
       /\ \A k \in RequiredKinds(policyRule.type) :
            /\ HasKind(tmplResult.val.componentList, k)
            /\ Find(tmplResult.val.componentList, k).payload.value
                 = policyRule.payload[OverlayField(policyRule.type, k)]


\* C18: convertPolicyRuleToRuleTemplate(rule, template) fails with an
\* error and produces no template whenever rule.type differs from
\* template.type, whatever the template's components and the rule's payload.
C18_TypeMismatchFails ==
    (cpc = "templated" /\ policyRule.type # ruleTemplate.type)
    => tmplResult = Thrown(NoTemplate)

C18_Witness ==
    /\ cpc = "templated"
    /\ policyRule.type = "naming.table"
    /\ ruleTemplate.type = "table.comment"
    /\ ruleTemplate.componentList = <<>>
    /\ ~tmplResult.ok


\* C19: convertRuleTemplateToPolicyRule builds each field of the payload
\* from the current value of the matching component (the first of its
\* kind) whenever a value is set, the set values 0, false, the empty
\* string and the empty list included, and from the component's default
\* only when no value is set; the payload has no other field.
C19_ValueElseDefault ==
    (cpc = "ruled" /\ ruleResult.ok /\ ruleTemplate.componentList # <<>>)
    => /\ ruleResult.val.hasPayload
       /\ \A k \in RequiredKinds(ruleTemplate.type) :
            LET c == Find(ruleTemplate.componentList, k).payload
                f == OverlayField(ruleTemplate.type, k)
            IN  /\ c.value # Undefined => ruleResult.val.payload[f] = c.value
                /\ c.value = Undefined => ruleResult.val.payload[f] = c.default
       /\ \A f \in PayloadFieldNames :
            (\A k \in RequiredKinds(ruleTemplate.type) :
                f # OverlayField(ruleTemplate.type, k))
              => ruleResult.val.payload[f] = Undefined

C19_Witness ==
    /\ cpc = "ruled"
    /\ ruleTemplate.type = "table.comment"
    /\ ruleTemplate.componentList
         = <<Component("required", "BOOLEAN", Bool(TRUE), Bool(FALSE)),
             Component("maxLength", "NUMBER", Num(64), Num(0))>>
    /\ ruleResult.ok
    /\ ruleResult.val.payload.required = Bool(FALSE)
    /\ ruleResult.val.payload.maxLength = Num(0)

InSchema(rule) ==
    RuleTemplateMapV2(rule.type, EngineFromJSON(rule.engine)) # 0

\* The preset entry's payload supplies a value for the key.
Supplies(rule, key) ==
    rule.hasPayload /\ Prop(rule.payload, key) # Undefined

\* The template built for a preset entry takes the entry's level and, per
\* component, the default the test says the entry supplies, otherwise the
\* schema's.
OverlaidWhere(Test(_, _)) ==
    \A i \in 1..Len(templateList) :
        LET known == SelectSeq(templateList[i].ruleList, InSchema)
            built == TEMPLATE_LIST_V2[i].ruleList
        IN  /\ Len(built) = Len(known)
            /\ \A j \in 1..Len(known) :
                LET rule == known[j]
                    schema == sqlReviewSchema[
                        RuleTemplateMapV2(rule.type,
                                          EngineFromJSON(rule.engine))]
                IN  /\ built[j].type = rule.type
                    /\ built[j].level = rule.level
                    /\ Len(built[j].componentList) = Len(schema.componentList)
                    /\ \A c \in 1..Len(schema.componentList) :
                        LET key == schema.componentList[c].key IN
                        built[j].componentList[c].payload.default
                          = IF Test(rule, key)
                            THEN Prop(rule.payload, key)
                            ELSE schema.componentList[c].payload.default

\* C23: in the catalog built at start-up, for every preset entry whose
\* (type, engine) the schema has, the template takes its level from the
\* preset and, for every component whose key the preset payload supplies a
\* value for, whatever the value, 0, false and "" included, that value as
\* the component's default; the other components keep the schema default.
C23_PresetOverlaid == kpc = "built" => OverlaidWhere(Supplies)

\* The list handed to convertToCategoryList and the list it returned.
Categorised == returned.fn = "convertToCategoryList"

RECURSIVE FirstOccurrences(_, _)
FirstOccurrences(ruleList, seen) ==
    IF ruleList = <<>> THEN <<>>
    ELSE IF Head(ruleList).category \in seen
         THEN FirstOccurrences(Tail(ruleList), seen)
         ELSE <<Head(ruleList).category>>
              \o FirstOccurrences(Tail(ruleList),
                                  seen \cup {Head(ruleList).category})

\* C30: convertToCategoryList partitions its input: the categories are the
\* categories of the input in order of first occurrence, none empty, and
\* the ruleList of a category is the input restricted to the rules of that
\* category, so every rule appears once, under its own category, in its
\* input order.
C30_CategoryListPartitions ==
    Categorised =>
        LET input == passed.before
            out == returned.val
        IN  /\ [i \in 1..Len(out) |-> out[i].id] = FirstOccurrences(input, {})
            /\ \A i \in 1..Len(out) :
                LET InCategory(r) == r.category = out[i].id IN
                /\ out[i].ruleList = SelectSeq(input, InCategory)
                /\ out[i].ruleList # <<>>

\* Three rules, the first and the third of one category, the second of
\* another.
C30_Witness ==
    /\ Categorised
    /\ Len(passed.before) = 3
    /\ passed.before[1].category = passed.before[3].category
    /\ passed.before[1].category # passed.before[2].category
    /\ passed.before[1] # passed.before[3]
    /\ Len(returned.val) = 2
    /\ returned.val[1].ruleList = <<passed.before[1], passed.before[3]>>
    /\ returned.val[2].ruleList = <<passed.before[2]>>

(***************************************************************************)
(* Statements about the plan.                                              *)
(***************************************************************************)
\* The step of buildSteps that calls maybeSetInitialSQLForSpec, the spec
\* and the key it is called with.
InitialSQLStep == ppc = "initial" /\ ppc' # "initial"
CurrentSpec == LET specs == Flatten(plan.steps) IN specs[Len(specs)]
CurrentKey == Head(Head(todo))

IsLocal(name) == name # NoSheet /\ StartsWithDash(ExtractSheetUID(name))

\* The initial SQL for the key: sqlMap[key] when the map has the key,
\* otherwise sql when there is one, otherwise none.
ChosenSQL ==
    LET q == params.initialSQL IN
    IF q.hasSqlMap /\ CurrentKey \in DOMAIN q.sqlMap THEN q.sqlMap[CurrentKey]
    ELSE IF q.sql.t = "string" THEN q.sql.s
    ELSE ""

\* C24: maybeSetInitialSQLForSpec sets the statement of the spec's sheet
\* only when that sheet is local (its UID starts with '-'), to the SQL
\* chosen by the priority sqlMap[key], then sql, then nothing; every other
\* sheet, and so every remote sheet, keeps its statement.
C24_InitialSQLOnlyOnLocalSheet ==
    [][InitialSQLStep
        => LET sheet == CurrentSpec.sheet IN
           /\ \A n \in DOMAIN sheets :
                (n # sheet \/ ~IsLocal(n))
                  => n \in DOMAIN sheets' /\ sheets'[n] = sheets[n]
           /\ sheets' # sheets
                => /\ IsLocal(sheet)
                   /\ ChosenSQL # ""
           /\ (IsLocal(sheet) /\ ChosenSQL # "")
                => /\ DOMAIN sheets' = DOMAIN sheets \cup {sheet}
                   /\ sheets'[sheet] = ChosenSQL]_vars

\* Two databases on local copies of a remote sheet, the query holding both
\* a statement and a map with a statement for the first database only: the
\* first sheet has the map's statement, the second the query's, and the
\* remote sheet its own.
C24_Witness ==
    /\ ppc = "return"
    /\ params.databaseNameList = <<"db_prod_a", "db_prod_b">>
    /\ params.template = SchemaUpdate
    /\ params.sheetId = RemoteUID
    /\ params.initialSQL
         = InitialSQL(Str("SELECT 1"), TRUE, ("db_prod_a" :> "SELECT a"))
    /\ LET specs == Flatten(plan.steps) IN
        /\ Len(specs) = 2
        /\ IsLocal(specs[1].sheet)
        /\ sheets[specs[1].sheet] = "SELECT a"
        /\ sheets[specs[2].sheet] = "SELECT 1"
    /\ sheets[SheetName(RemoteUID)] = RemoteStatement

\* The sheets of the specs of the plan that have one.
SpecSheets ==
    LET specs == Flatten(plan.steps)
        HasSheet(spec) == spec.sheet # NoSheet
        withSheet == SelectSeq(specs, HasSheet)
    IN  [i \in 1..Len(withSheet) |-> withSheet[i].sheet]

Dedicated(s) == \A i, j \in 1..Len(s) : i # j => s[i] # s[j]
Shared(s) == \A i, j \in 1..Len(s) : s[i] = s[j]

\* C25: on the standard path of buildPlan the specs use dedicated sheets,
\* one per spec, if a sqlMap is given as initial SQL, and otherwise all
\* specs of the plan share one sheet.
C25_DedicatedIffSqlMap ==
    ppc = "done"
        => IF params.initialSQL.hasSqlMap
           THEN Dedicated(SpecSheets)
           ELSE Shared(SpecSheets)

\* The template is accepted by a direction: the conversion returns.
AcceptedForward(pr, rt) == ConvertPolicyRuleToRuleTemplate(pr, rt).ok
AcceptedBackward(rt) == ConvertRuleTemplateToPolicyRule(rt).ok

\* C28: the two directions agree on the catalog: they accept the same rule
\* types and require the same component kinds of each, so that a template
\* of the rule's type is accepted by convertPolicyRuleToRuleTemplate
\* exactly if it is accepted by convertRuleTemplateToPolicyRule.
C28_DirectionsAgree ==
    /\ FwdTypes = BwdTypes
    /\ (cpc = "templated" /\ policyRule.type = ruleTemplate.type)
         => (tmplResult.ok <=> AcceptedBackward(ruleTemplate))
    /\ (cpc = "ruled" /\ policyRule.type = ruleTemplate.type)
         => (ruleResult.ok <=> AcceptedForward(policyRule, ruleTemplate))

\* The kinds of the components of a list, in order.
KindsOf(componentList) ==
    [i \in 1..Len(componentList) |-> componentList[i].payload.type]

\* C29: when convertPolicyRuleToRuleTemplate succeeds on a template with a
\* non-empty componentList, the result's componentList holds one component
\* per required kind of the rule type, in the rule type's fixed order,
\* whatever the order and number of components of the template; type and
\* category are the template's, level, engine and comment the rule's.
C29_ResultComponentsFixed ==
    (cpc = "templated" /\ tmplResult.ok /\ ruleTemplate.componentList # <<>>)
        => /\ KindsOf(tmplResult.val.componentList)
                = CatalogKinds(ruleTemplate.type)
           /\ tmplResult.val.type = ruleTemplate.type
           /\ tmplResult.val.category = ruleTemplate.category
           /\ tmplResult.val.level = policyRule.level
           /\ tmplResult.val.engine = policyRule.engine
           /\ tmplResult.val.comment = policyRule.comment


====
